---------------------------- MODULE Spec2Model ----------------------------
(***************************************************************************)
(* The resume builder of src/resume-builder/components/ResumeBuilder.tsx:  *)
(* the suggestion engine (getSuggestedBullets), the checklist evaluator    *)
(* (the useMemo block of ResumeBuilder) and the document handlers.         *)
(*                                                                         *)
(* A JavaScript string is modelled as the sequence of its characters, each *)
(* character a one-character TLA+ string, so that trim, split, join and    *)
(* regular-expression matching are computed and not assumed.  Labels and   *)
(* tips, on which the program performs no string operation, stay atomic.   *)
(***************************************************************************)
EXTENDS Integers, Sequences, FiniteSets, TLC

VARIABLES
    personal,      \* useState<PersonalInfo>, line 473
    experiences,   \* useState<Experience[]>, line 474
    educations,    \* useState<Education[]>, line 477
    projects,      \* useState<Project[]>, line 480
    skills,        \* useState<SkillBlock[]>, line 481
    issued,        \* the identifiers generateId has returned so far
    checklist,     \* the value cached by useMemo, line 485
    lastIndex,     \* the lastIndex property of each library RegExp object
    args,          \* the arguments of the getSuggestedBullets call under test
    calls,         \* the getSuggestedBullets calls of the latest render
    snap,          \* a probe: one earlier getSuggestedBullets call, or what each
                   \* specification says it keeps for comparison
    host           \* whether there is a window, and the downloads and the print
                   \* dialogs the handlers of lines 575-596 asked the host for

vars == <<personal, experiences, educations, projects, skills, issued,
          checklist, lastIndex, args, calls, snap, host>>

(***************************************************************************)
(* Strings                                                                 *)
(***************************************************************************)

\* The characters String.prototype.trim removes and \s matches: the members
\* of WhiteSpace and LineTerminator that a TLA+ string can spell.
WhiteSpace == {" ", "\t", "\n", "\r", "\f"}

LowerCase ==
    <<"a", "b", "c", "d", "e", "f", "g", "h", "i", "j", "k", "l", "m",
      "n", "o", "p", "q", "r", "s", "t", "u", "v", "w", "x", "y", "z">>

UpperCase ==
    <<"A", "B", "C", "D", "E", "F", "G", "H", "I", "J", "K", "L", "M",
      "N", "O", "P", "Q", "R", "S", "T", "U", "V", "W", "X", "Y", "Z">>

UpperCaseOf ==
    [c \in {LowerCase[k] : k \in 1..26} |->
        UpperCase[CHOOSE k \in 1..26 : LowerCase[k] = c]]

\* String.prototype.toUpperCase on one ASCII character.
toUpperCase(c) == IF c \in DOMAIN UpperCaseOf THEN UpperCaseOf[c] ELSE c

\* Canonicalize of the RegExp semantics: with the i flag a character is
\* compared by its upper-case form, without it as it is.
Canonicalize(flags, c) == IF "i" \in flags THEN toUpperCase(c) ELSE c

\* The characters of s, each canonicalized; the atom "\\s*" is no character
\* and is left as it is.
RECURSIVE CanonicalizeAll(_, _)
CanonicalizeAll(flags, s) ==
    IF s = <<>> THEN <<>>
    ELSE <<Canonicalize(flags, Head(s))>> \o CanonicalizeAll(flags, Tail(s))

\* The first position from i upwards, and the last from i downwards, that
\* holds no white space (Len(s) + 1 and 0 when there is none).
RECURSIVE trimStart(_, _)
trimStart(s, i) ==
    IF i <= Len(s) /\ s[i] \in WhiteSpace THEN trimStart(s, i + 1) ELSE i

RECURSIVE trimEnd(_, _)
trimEnd(s, i) ==
    IF i >= 1 /\ s[i] \in WhiteSpace THEN trimEnd(s, i - 1) ELSE i

\* String.prototype.trim: s without its leading and trailing white space.
trim(s) ==
    LET from == trimStart(s, 1)
        to   == trimEnd(s, Len(s))
    IN  IF from > to THEN <<>> ELSE SubSeq(s, from, to)

\* n copies of the character c
Repeat(c, n) == [i \in 1..n |-> c]

(***************************************************************************)
(* Regular expressions.  A pattern is the sequence of its alternatives, an *)
(* alternative the sequence of its atoms: a literal character, or the atom *)
(* "\\s*" (zero or more white-space characters, greedy).  Positions are    *)
(* JavaScript's: position i stands before character i + 1.                 *)
(***************************************************************************)

Star == "\\s*"

\* The number of white-space characters of s from position i on.
RECURSIVE WhiteSpaceRun(_, _)
WhiteSpaceRun(s, i) ==
    IF i < Len(s) /\ s[i + 1] \in WhiteSpace THEN 1 + WhiteSpaceRun(s, i + 1) ELSE 0

\* The position where atoms k.. of alternative alt end when matched against s
\* from position i, or -1 when they do not match there.  alt and s hold
\* canonicalized characters.
RECURSIVE MatchEnd(_, _, _, _)
RECURSIVE StarEnd(_, _, _, _, _)
MatchEnd(alt, k, s, i) ==
    IF k > Len(alt) THEN i
    ELSE IF alt[k] = Star
         THEN StarEnd(alt, k, s, i, WhiteSpaceRun(s, i))
    ELSE IF i < Len(s) /\ s[i + 1] = alt[k]
         THEN MatchEnd(alt, k + 1, s, i + 1)
    ELSE -1

\* The greedy star: the longest run first, then backtracking one at a time.
StarEnd(alt, k, s, i, n) ==
    LET e == MatchEnd(alt, k + 1, s, i + n)
    IN  IF e >= 0 THEN e
        ELSE IF n = 0 THEN -1
        ELSE StarEnd(alt, k, s, i, n - 1)

\* The end of the match of the first alternative (in order, from a on) that
\* matches s at position i, or -1.
RECURSIVE AltsEnd(_, _, _, _)
AltsEnd(alts, a, s, i) ==
    IF a > Len(alts) THEN -1
    ELSE LET e == MatchEnd(alts[a], 1, s, i)
         IN  IF e >= 0 THEN e ELSE AltsEnd(alts, a + 1, s, i)

\* The end of the leftmost match at or after position i, or -1; under the y
\* flag only a match at position i counts.
RECURSIVE SearchFrom(_, _, _, _)
SearchFrom(alts, sticky, s, i) ==
    IF i > Len(s) THEN -1
    ELSE LET e == AltsEnd(alts, 1, s, i)
         IN  IF e >= 0 THEN e
             ELSE IF sticky THEN -1
             ELSE SearchFrom(alts, sticky, s, i + 1)

RECURSIVE CanonicalizeAlts(_, _)
CanonicalizeAlts(flags, alts) ==
    IF alts = <<>> THEN <<>>
    ELSE <<CanonicalizeAll(flags, Head(alts))>> \o CanonicalizeAlts(flags, Tail(alts))

\* A RegExp object as the literal /alts/flags creates it: the alternatives are
\* kept in canonical form, as a compiled pattern is.
RegExp(alts, flags) ==
    [flags |-> flags, alts |-> CanonicalizeAlts(flags, alts)]

\* RegExp.prototype.test (RegExpBuiltinExec): whether re matches s, and the
\* lastIndex the RegExp object is left with.  lastIndex is read and written
\* only under the g or the y flag.
test(re, s, li) ==
    LET stateful == ("g" \in re.flags) \/ ("y" \in re.flags)
        start    == IF stateful THEN li ELSE 0
        e        == SearchFrom(re.alts, "y" \in re.flags,
                               CanonicalizeAll(re.flags, s), start)
    IN  IF e >= 0
        THEN [matched |-> TRUE,  lastIndex |-> IF stateful THEN e ELSE li]
        ELSE [matched |-> FALSE, lastIndex |-> IF stateful THEN 0 ELSE li]

(***************************************************************************)
(* The suggestion library, lines 69-105                                    *)
(***************************************************************************)

\* Mutant: the first pattern with the g flag, /(software|...)/gi.
SoftwarePatternGlobal ==
    RegExp(<< <<"s", "o", "f", "t", "w", "a", "r", "e">>,
              <<"f", "u", "l", "l", Star, "s", "t", "a", "c", "k">>,
              <<"b", "a", "c", "k", "e", "n", "d">>,
              <<"f", "r", "o", "n", "t", "e", "n", "d">>,
              <<"w", "e", "b">>,
              <<"d", "e", "v", "e", "l", "o", "p", "e", "r">>,
              <<"e", "n", "g", "i", "n", "e", "e", "r">> >>,
           {"g", "i"})

\* /(software|full\s*stack|backend|frontend|web|developer|engineer)/i
SoftwarePattern ==
    RegExp(<< <<"s", "o", "f", "t", "w", "a", "r", "e">>,
           <<"f", "u", "l", "l", Star, "s", "t", "a", "c", "k">>,
           <<"b", "a", "c", "k", "e", "n", "d">>,
           <<"f", "r", "o", "n", "t", "e", "n", "d">>,
           <<"w", "e", "b">>,
           <<"d", "e", "v", "e", "l", "o", "p", "e", "r">>,
           <<"e", "n", "g", "i", "n", "e", "e", "r">> >>,
           {"i"})

\* /(product\s*manager|pm|product lead)/i
ProductPattern ==
    RegExp(<< <<"p", "r", "o", "d", "u", "c", "t", Star,
             "m", "a", "n", "a", "g", "e", "r">>,
           <<"p", "m">>,
           <<"p", "r", "o", "d", "u", "c", "t", " ", "l", "e", "a", "d">> >>,
           {"i"})

\* /(designer|ux|ui)/i
DesignPattern ==
    RegExp(<< <<"d", "e", "s", "i", "g", "n", "e", "r">>,
           <<"u", "x">>,
           <<"u", "i">> >>,
           {"i"})

\* /(data|analytics|science)/i
DataPattern ==
    RegExp(<< <<"d", "a", "t", "a">>,
           <<"a", "n", "a", "l", "y", "t", "i", "c", "s">>,
           <<"s", "c", "i", "e", "n", "c", "e">> >>,
           {"i"})

\* line 76: "Designed and shipped responsive interfaces with React, TypeScript, and modern CSS tooling."
SoftwareBullet1 ==
    <<"D", "e", "s", "i", "g", "n", "e", "d", " ", "a", "n", "d", " ", "s", "h", "i", "p",
      "p", "e", "d", " ", "r", "e", "s", "p", "o", "n", "s", "i", "v", "e", " ", "i", "n",
      "t", "e", "r", "f", "a", "c", "e", "s", " ", "w", "i", "t", "h", " ", "R", "e", "a",
      "c", "t", ",", " ", "T", "y", "p", "e", "S", "c", "r", "i", "p", "t", ",", " ", "a",
      "n", "d", " ", "m", "o", "d", "e", "r", "n", " ", "C", "S", "S", " ", "t", "o", "o",
      "l", "i", "n", "g", ".">>

\* line 77: "Collaborated with cross-functional partners to ship features that unblocked revenue-critical workflows."
SoftwareBullet2 ==
    <<"C", "o", "l", "l", "a", "b", "o", "r", "a", "t", "e", "d", " ", "w", "i", "t", "h",
      " ", "c", "r", "o", "s", "s", "-", "f", "u", "n", "c", "t", "i", "o", "n", "a", "l",
      " ", "p", "a", "r", "t", "n", "e", "r", "s", " ", "t", "o", " ", "s", "h", "i", "p",
      " ", "f", "e", "a", "t", "u", "r", "e", "s", " ", "t", "h", "a", "t", " ", "u", "n",
      "b", "l", "o", "c", "k", "e", "d", " ", "r", "e", "v", "e", "n", "u", "e", "-", "c",
      "r", "i", "t", "i", "c", "a", "l", " ", "w", "o", "r", "k", "f", "l", "o", "w", "s",
      ".">>

\* line 78: "Instrumented analytics and alerting that reduced production issues and improved deployment confidence."
SoftwareBullet3 ==
    <<"I", "n", "s", "t", "r", "u", "m", "e", "n", "t", "e", "d", " ", "a", "n", "a", "l",
      "y", "t", "i", "c", "s", " ", "a", "n", "d", " ", "a", "l", "e", "r", "t", "i", "n",
      "g", " ", "t", "h", "a", "t", " ", "r", "e", "d", "u", "c", "e", "d", " ", "p", "r",
      "o", "d", "u", "c", "t", "i", "o", "n", " ", "i", "s", "s", "u", "e", "s", " ", "a",
      "n", "d", " ", "i", "m", "p", "r", "o", "v", "e", "d", " ", "d", "e", "p", "l", "o",
      "y", "m", "e", "n", "t", " ", "c", "o", "n", "f", "i", "d", "e", "n", "c", "e",
      ".">>

\* line 84: "Defined product strategy by synthesizing user research, analytics, and stakeholder interviews."
ProductBullet1 ==
    <<"D", "e", "f", "i", "n", "e", "d", " ", "p", "r", "o", "d", "u", "c", "t", " ", "s",
      "t", "r", "a", "t", "e", "g", "y", " ", "b", "y", " ", "s", "y", "n", "t", "h", "e",
      "s", "i", "z", "i", "n", "g", " ", "u", "s", "e", "r", " ", "r", "e", "s", "e", "a",
      "r", "c", "h", ",", " ", "a", "n", "a", "l", "y", "t", "i", "c", "s", ",", " ", "a",
      "n", "d", " ", "s", "t", "a", "k", "e", "h", "o", "l", "d", "e", "r", " ", "i", "n",
      "t", "e", "r", "v", "i", "e", "w", "s", ".">>

\* line 85: "Launched iterative experiments that increased activation and retention across the customer lifecycle."
ProductBullet2 ==
    <<"L", "a", "u", "n", "c", "h", "e", "d", " ", "i", "t", "e", "r", "a", "t", "i", "v",
      "e", " ", "e", "x", "p", "e", "r", "i", "m", "e", "n", "t", "s", " ", "t", "h", "a",
      "t", " ", "i", "n", "c", "r", "e", "a", "s", "e", "d", " ", "a", "c", "t", "i", "v",
      "a", "t", "i", "o", "n", " ", "a", "n", "d", " ", "r", "e", "t", "e", "n", "t", "i",
      "o", "n", " ", "a", "c", "r", "o", "s", "s", " ", "t", "h", "e", " ", "c", "u", "s",
      "t", "o", "m", "e", "r", " ", "l", "i", "f", "e", "c", "y", "c", "l", "e", ".">>

\* line 86: "Prioritized developer time through a discovery-to-delivery framework grounded in measurable outcomes."
ProductBullet3 ==
    <<"P", "r", "i", "o", "r", "i", "t", "i", "z", "e", "d", " ", "d", "e", "v", "e", "l",
      "o", "p", "e", "r", " ", "t", "i", "m", "e", " ", "t", "h", "r", "o", "u", "g", "h",
      " ", "a", " ", "d", "i", "s", "c", "o", "v", "e", "r", "y", "-", "t", "o", "-", "d",
      "e", "l", "i", "v", "e", "r", "y", " ", "f", "r", "a", "m", "e", "w", "o", "r", "k",
      " ", "g", "r", "o", "u", "n", "d", "e", "d", " ", "i", "n", " ", "m", "e", "a", "s",
      "u", "r", "a", "b", "l", "e", " ", "o", "u", "t", "c", "o", "m", "e", "s", ".">>

\* line 92: "Crafted accessible design systems with documented patterns and component libraries."
DesignBullet1 ==
    <<"C", "r", "a", "f", "t", "e", "d", " ", "a", "c", "c", "e", "s", "s", "i", "b", "l",
      "e", " ", "d", "e", "s", "i", "g", "n", " ", "s", "y", "s", "t", "e", "m", "s", " ",
      "w", "i", "t", "h", " ", "d", "o", "c", "u", "m", "e", "n", "t", "e", "d", " ", "p",
      "a", "t", "t", "e", "r", "n", "s", " ", "a", "n", "d", " ", "c", "o", "m", "p", "o",
      "n", "e", "n", "t", " ", "l", "i", "b", "r", "a", "r", "i", "e", "s", ".">>

\* line 93: "Conducted moderated usability sessions that surfaced critical workflow friction."
DesignBullet2 ==
    <<"C", "o", "n", "d", "u", "c", "t", "e", "d", " ", "m", "o", "d", "e", "r", "a", "t",
      "e", "d", " ", "u", "s", "a", "b", "i", "l", "i", "t", "y", " ", "s", "e", "s", "s",
      "i", "o", "n", "s", " ", "t", "h", "a", "t", " ", "s", "u", "r", "f", "a", "c", "e",
      "d", " ", "c", "r", "i", "t", "i", "c", "a", "l", " ", "w", "o", "r", "k", "f", "l",
      "o", "w", " ", "f", "r", "i", "c", "t", "i", "o", "n", ".">>

\* line 94: "Partnered with engineers to validate interaction fidelity and deliver pixel-perfect implementations."
DesignBullet3 ==
    <<"P", "a", "r", "t", "n", "e", "r", "e", "d", " ", "w", "i", "t", "h", " ", "e", "n",
      "g", "i", "n", "e", "e", "r", "s", " ", "t", "o", " ", "v", "a", "l", "i", "d", "a",
      "t", "e", " ", "i", "n", "t", "e", "r", "a", "c", "t", "i", "o", "n", " ", "f", "i",
      "d", "e", "l", "i", "t", "y", " ", "a", "n", "d", " ", "d", "e", "l", "i", "v", "e",
      "r", " ", "p", "i", "x", "e", "l", "-", "p", "e", "r", "f", "e", "c", "t", " ", "i",
      "m", "p", "l", "e", "m", "e", "n", "t", "a", "t", "i", "o", "n", "s", ".">>

\* line 100: "Delivered end-to-end data products leveraging Python, SQL, and BI tooling to answer high-impact questions."
DataBullet1 ==
    <<"D", "e", "l", "i", "v", "e", "r", "e", "d", " ", "e", "n", "d", "-", "t", "o", "-",
      "e", "n", "d", " ", "d", "a", "t", "a", " ", "p", "r", "o", "d", "u", "c", "t", "s",
      " ", "l", "e", "v", "e", "r", "a", "g", "i", "n", "g", " ", "P", "y", "t", "h", "o",
      "n", ",", " ", "S", "Q", "L", ",", " ", "a", "n", "d", " ", "B", "I", " ", "t", "o",
      "o", "l", "i", "n", "g", " ", "t", "o", " ", "a", "n", "s", "w", "e", "r", " ", "h",
      "i", "g", "h", "-", "i", "m", "p", "a", "c", "t", " ", "q", "u", "e", "s", "t", "i",
      "o", "n", "s", ".">>

\* line 101: "Built predictive models that increased operational efficiency and informed strategic decisions."
DataBullet2 ==
    <<"B", "u", "i", "l", "t", " ", "p", "r", "e", "d", "i", "c", "t", "i", "v", "e", " ",
      "m", "o", "d", "e", "l", "s", " ", "t", "h", "a", "t", " ", "i", "n", "c", "r", "e",
      "a", "s", "e", "d", " ", "o", "p", "e", "r", "a", "t", "i", "o", "n", "a", "l", " ",
      "e", "f", "f", "i", "c", "i", "e", "n", "c", "y", " ", "a", "n", "d", " ", "i", "n",
      "f", "o", "r", "m", "e", "d", " ", "s", "t", "r", "a", "t", "e", "g", "i", "c", " ",
      "d", "e", "c", "i", "s", "i", "o", "n", "s", ".">>

\* line 102: "Implemented automated data quality monitors that strengthened trust in dashboards and reports."
DataBullet3 ==
    <<"I", "m", "p", "l", "e", "m", "e", "n", "t", "e", "d", " ", "a", "u", "t", "o", "m",
      "a", "t", "e", "d", " ", "d", "a", "t", "a", " ", "q", "u", "a", "l", "i", "t", "y",
      " ", "m", "o", "n", "i", "t", "o", "r", "s", " ", "t", "h", "a", "t", " ", "s", "t",
      "r", "e", "n", "g", "t", "h", "e", "n", "e", "d", " ", "t", "r", "u", "s", "t", " ",
      "i", "n", " ", "d", "a", "s", "h", "b", "o", "a", "r", "d", "s", " ", "a", "n", "d",
      " ", "r", "e", "p", "o", "r", "t", "s", ".">>

\* line 113: "Partnered with stakeholders to prioritize initiatives by impact and effort."
GenericBullet1 ==
    <<"P", "a", "r", "t", "n", "e", "r", "e", "d", " ", "w", "i", "t", "h", " ", "s", "t",
      "a", "k", "e", "h", "o", "l", "d", "e", "r", "s", " ", "t", "o", " ", "p", "r", "i",
      "o", "r", "i", "t", "i", "z", "e", " ", "i", "n", "i", "t", "i", "a", "t", "i", "v",
      "e", "s", " ", "b", "y", " ", "i", "m", "p", "a", "c", "t", " ", "a", "n", "d", " ",
      "e", "f", "f", "o", "r", "t", ".">>

\* line 114: "Applied measurable goals to track success and iterate quickly on feedback."
GenericBullet2 ==
    <<"A", "p", "p", "l", "i", "e", "d", " ", "m", "e", "a", "s", "u", "r", "a", "b", "l",
      "e", " ", "g", "o", "a", "l", "s", " ", "t", "o", " ", "t", "r", "a", "c", "k", " ",
      "s", "u", "c", "c", "e", "s", "s", " ", "a", "n", "d", " ", "i", "t", "e", "r", "a",
      "t", "e", " ", "q", "u", "i", "c", "k", "l", "y", " ", "o", "n", " ", "f", "e", "e",
      "d", "b", "a", "c", "k", ".">>

\* line 115: "Mentored teammates and strengthened team operating rituals to raise the quality bar."
GenericBullet3 ==
    <<"M", "e", "n", "t", "o", "r", "e", "d", " ", "t", "e", "a", "m", "m", "a", "t", "e",
      "s", " ", "a", "n", "d", " ", "s", "t", "r", "e", "n", "g", "t", "h", "e", "n", "e",
      "d", " ", "t", "e", "a", "m", " ", "o", "p", "e", "r", "a", "t", "i", "n", "g", " ",
      "r", "i", "t", "u", "a", "l", "s", " ", "t", "o", " ", "r", "a", "i", "s", "e", " ",
      "t", "h", "e", " ", "q", "u", "a", "l", "i", "t", "y", " ", "b", "a", "r", ".">>

roleSuggestionLibrary ==
    << [pattern |-> SoftwarePattern,
        bullets |-> <<SoftwareBullet1, SoftwareBullet2, SoftwareBullet3>>],
       [pattern |-> ProductPattern,
        bullets |-> <<ProductBullet1, ProductBullet2, ProductBullet3>>],
       [pattern |-> DesignPattern,
        bullets |-> <<DesignBullet1, DesignBullet2, DesignBullet3>>],
       [pattern |-> DataPattern,
        bullets |-> <<DataBullet1, DataBullet2, DataBullet3>>] >>

\* Mutant: the first two generic bullets in the wrong order.
genericBulletsSwapped == <<GenericBullet2, GenericBullet1, GenericBullet3>>

genericBullets == <<GenericBullet1, GenericBullet2, GenericBullet3>>

\* Mutant: && in place of ||.
EntryTestBoth(entry, role, summary, li) ==
    LET t1 == test(entry.pattern, role, li)
    IN  IF t1.matched THEN test(entry.pattern, summary, t1.lastIndex) ELSE t1

\* entry.pattern.test(role) || entry.pattern.test(summary): the second test
\* runs only when the first fails, on the RegExp object the first one left.
EntryTest(entry, role, summary, li) ==
    LET t1 == test(entry.pattern, role, li)
    IN  IF t1.matched THEN t1 ELSE test(entry.pattern, summary, t1.lastIndex)

\* The outcome of the filter callback on each library entry from k on.
RECURSIVE filterTests(_, _, _, _)
filterTests(k, role, summary, li) ==
    IF k > Len(roleSuggestionLibrary) THEN <<>>
    ELSE <<EntryTest(roleSuggestionLibrary[k], role, summary, li[k])>>
         \o filterTests(k + 1, role, summary, li)

\* [...new Set(xs)]: the elements of xs in the order of their first occurrence.
RECURSIVE SetSpread(_)
SetSpread(xs) ==
    IF xs = <<>> THEN <<>>
    ELSE LET init == SubSeq(xs, 1, Len(xs) - 1)
             x    == xs[Len(xs)]
         IN  IF \E i \in 1..Len(init) : init[i] = x
             THEN SetSpread(init)
             ELSE Append(SetSpread(init), x)

\* roleSuggestionLibrary.filter(...).flatMap((entry) => entry.bullets), from
\* entry k on; tests[k] is the outcome of the filter callback on entry k.
RECURSIVE libraryMatches(_, _)
libraryMatches(tests, k) ==
    IF k > Len(roleSuggestionLibrary) THEN <<>>
    ELSE (IF tests[k].matched THEN roleSuggestionLibrary[k].bullets ELSE <<>>)
         \o libraryMatches(tests, k + 1)

\* Mutant: the groups matched by the role, then those matched by the summary,
\* then the generic bullets, with no Set in between.
getSuggestedBulletsPerInput(role, summary, li) ==
    LET byRole    == [k \in DOMAIN roleSuggestionLibrary |->
                         test(roleSuggestionLibrary[k].pattern, role, li[k])]
        bySummary == [k \in DOMAIN roleSuggestionLibrary |->
                         test(roleSuggestionLibrary[k].pattern, summary,
                              byRole[k].lastIndex)]
    IN  [result    |-> libraryMatches(byRole, 1) \o libraryMatches(bySummary, 1)
                           \o genericBullets,
         lastIndex |-> [k \in DOMAIN roleSuggestionLibrary |-> bySummary[k].lastIndex]]

\* Mutant: the generic bullets only when no library entry matched.
getSuggestedBulletsFallback(role, summary, li) ==
    LET tests   == filterTests(1, role, summary, li)
        matches == libraryMatches(tests, 1)
    IN  [result    |-> SetSpread(IF matches = <<>> THEN genericBullets ELSE matches),
         lastIndex |-> [k \in DOMAIN roleSuggestionLibrary |-> tests[k].lastIndex]]

\* getSuggestedBullets, lines 107-119: the returned array and the lastIndex of
\* each library RegExp after the call.
getSuggestedBullets(role, summary, li) ==
    LET tests == filterTests(1, role, summary, li)
    IN  [result    |-> SetSpread(libraryMatches(tests, 1) \o genericBullets),
         lastIndex |-> [k \in DOMAIN roleSuggestionLibrary |-> tests[k].lastIndex]]

(***************************************************************************)
(* The document, lines 5-67 and 121-158                                    *)
(***************************************************************************)

PersonalFields ==
    {"fullName", "headline", "email", "phone", "location", "website",
     "linkedin", "summary"}

basePersonalInfo ==
    [fullName |-> <<>>, headline |-> <<>>, email |-> <<>>, phone |-> <<>>,
     location |-> <<>>, website |-> <<>>, linkedin |-> <<>>, summary |-> <<>>]

\* Identifiers are drawn from 1..MaxIds: four at construction, the others by
\* the add handlers, which are disabled once the pool is used up.
MaxIds == 6

\* The sessions that edit the text of the form stop adding entries once
\* MaxSessionIds identifiers are out; SpecLists, which edits little text, adds
\* entries until the pool is used up.
MaxSessionIds == 5

IdPool == 1..MaxIds

\* Mutant: a generator that may return a value it returned before.
generateIdAny(used) == IdPool

\* generateId: crypto.randomUUID(), or a base-36 rendering of Math.random().
\* The outcomes are the identifiers not returned before: the model takes the
\* generator to be collision-free, as a UUID is for every practical purpose.
generateId(used) == IdPool \ used

createExperience(id) ==
    [id |-> id, role |-> <<>>, company |-> <<>>, location |-> <<>>,
     startDate |-> <<>>, endDate |-> <<>>, bullets |-> <<>>]

createEducation(id) ==
    [id |-> id, school |-> <<>>, degree |-> <<>>, startDate |-> <<>>,
     endDate |-> <<>>, details |-> <<>>, location |-> <<>>]

createProject(id) ==
    [id |-> id, name |-> <<>>, description |-> <<>>, link |-> <<>>,
     highlights |-> <<>>]

createSkillBlock(id) == [id |-> id, label |-> <<>>, items |-> <<>>]

\* { id: generateId(), label: "Core", items: "" }, line 482
initialSkillBlock(id) == [id |-> id, label |-> <<"C", "o", "r", "e">>, items |-> <<>>]

(***************************************************************************)
(* The checklist, lines 485-544                                            *)
(***************************************************************************)

SummaryMinLength == 60

ExperienceMinBullets == 3

\* Mutant: the email checked without trim.
contactSatisfiedEmailUntrimmed(p) ==
    /\ Len(trim(p.fullName)) > 0
    /\ Len(trim(p.headline)) > 0
    /\ Len(p.email) > 0
    /\ Len(trim(p.location)) > 0

contactSatisfied(p) ==
    /\ Len(trim(p.fullName)) > 0
    /\ Len(trim(p.headline)) > 0
    /\ Len(trim(p.email)) > 0
    /\ Len(trim(p.location)) > 0

\* Mutant: the summary measured without trim.
summarySatisfiedUntrimmed(p) == Len(p.summary) > SummaryMinLength

summarySatisfied(p) == Len(trim(p.summary)) > SummaryMinLength

\* Mutant: the bullets of all experiences counted together.
RECURSIVE totalBullets(_)
totalBullets(exps) ==
    IF exps = <<>> THEN 0 ELSE Len(Head(exps).bullets) + totalBullets(Tail(exps))

experienceSatisfiedInTotal(exps) == totalBullets(exps) >= ExperienceMinBullets

experienceSatisfied(exps) ==
    \E i \in DOMAIN exps : Len(exps[i].bullets) >= ExperienceMinBullets

\* Mutant: the school counted like the degree.
educationSatisfiedBySchool(edus) ==
    \E i \in DOMAIN edus :
        Len(trim(edus[i].school)) > 0 \/ Len(trim(edus[i].degree)) > 0
            \/ Len(trim(edus[i].details)) > 0

educationSatisfied(edus) ==
    \E i \in DOMAIN edus :
        Len(trim(edus[i].degree)) > 0 \/ Len(trim(edus[i].details)) > 0

\* Mutant: the label counted like the items.
skillsSatisfiedByLabel(sks) ==
    \E i \in DOMAIN sks :
        Len(trim(sks[i].label)) > 0 \/ Len(trim(sks[i].items)) > 0

skillsSatisfied(sks) == \E i \in DOMAIN sks : Len(trim(sks[i].items)) > 0

\* Mutant: the summary item marked required.
computeChecklistSummaryRequired(p, exps, edus, sks) ==
    << [id        |-> "contact",
        label     |-> "Contact section is complete",
        required  |-> TRUE,
        satisfied |-> contactSatisfied(p),
        tips      |-> <<"Include full name, role headline, and location.",
                        "Add best contact email and optional phone number.">>],
       [id        |-> "summary",
        label     |-> "Include a focused summary",
        required  |-> TRUE,
        satisfied |-> summarySatisfied(p),
        tips      |-> <<"Write 2-3 concise sentences highlighting domain expertise.",
                        "Reference years of experience and a core differentiator.">>],
       [id        |-> "experience",
        label     |-> "At least one experience entry has impact bullets",
        required  |-> TRUE,
        satisfied |-> experienceSatisfied(exps),
        tips      |-> <<"Aim for 3+ quantified bullets per recent role.",
                        "Start each bullet with strong action verbs.">>],
       [id        |-> "education",
        label     |-> "Education contains degree or certification",
        required  |-> FALSE,
        satisfied |-> educationSatisfied(edus),
        tips      |-> <<"List degree, major, and graduation year.",
                        "Add standout coursework, honors, or certifications.">>],
       [id        |-> "skills",
        label     |-> "Skill blocks highlight tools and strengths",
        required  |-> TRUE,
        satisfied |-> skillsSatisfied(sks),
        tips      |-> <<"Group skills by tooling, methodologies, and domains.",
                        "Mirror keywords used in your target job descriptions.">>] >>

\* Mutant: the skills item computed from the experiences, as the experience
\* item is.
computeChecklistSkillsFromBullets(p, exps, edus, sks) ==
    << [id        |-> "contact",
        label     |-> "Contact section is complete",
        required  |-> TRUE,
        satisfied |-> contactSatisfied(p),
        tips      |-> <<"Include full name, role headline, and location.",
                        "Add best contact email and optional phone number.">>],
       [id        |-> "summary",
        label     |-> "Include a focused summary",
        required  |-> FALSE,
        satisfied |-> summarySatisfied(p),
        tips      |-> <<"Write 2-3 concise sentences highlighting domain expertise.",
                        "Reference years of experience and a core differentiator.">>],
       [id        |-> "experience",
        label     |-> "At least one experience entry has impact bullets",
        required  |-> TRUE,
        satisfied |-> experienceSatisfied(exps),
        tips      |-> <<"Aim for 3+ quantified bullets per recent role.",
                        "Start each bullet with strong action verbs.">>],
       [id        |-> "education",
        label     |-> "Education contains degree or certification",
        required  |-> FALSE,
        satisfied |-> educationSatisfied(edus),
        tips      |-> <<"List degree, major, and graduation year.",
                        "Add standout coursework, honors, or certifications.">>],
       [id        |-> "skills",
        label     |-> "Skill blocks highlight tools and strengths",
        required  |-> TRUE,
        satisfied |-> experienceSatisfied(exps),
        tips      |-> <<"Group skills by tooling, methodologies, and domains.",
                        "Mirror keywords used in your target job descriptions.">>] >>

\* The array the useMemo callback returns.  The en dash of the first summary
\* tip is written as a hyphen.
computeChecklist(p, exps, edus, sks) ==
    << [id        |-> "contact",
        label     |-> "Contact section is complete",
        required  |-> TRUE,
        satisfied |-> contactSatisfied(p),
        tips      |-> <<"Include full name, role headline, and location.",
                        "Add best contact email and optional phone number.">>],
       [id        |-> "summary",
        label     |-> "Include a focused summary",
        required  |-> FALSE,
        satisfied |-> summarySatisfied(p),
        tips      |-> <<"Write 2-3 concise sentences highlighting domain expertise.",
                        "Reference years of experience and a core differentiator.">>],
       [id        |-> "experience",
        label     |-> "At least one experience entry has impact bullets",
        required  |-> TRUE,
        satisfied |-> experienceSatisfied(exps),
        tips      |-> <<"Aim for 3+ quantified bullets per recent role.",
                        "Start each bullet with strong action verbs.">>],
       [id        |-> "education",
        label     |-> "Education contains degree or certification",
        required  |-> FALSE,
        satisfied |-> educationSatisfied(edus),
        tips      |-> <<"List degree, major, and graduation year.",
                        "Add standout coursework, honors, or certifications.">>],
       [id        |-> "skills",
        label     |-> "Skill blocks highlight tools and strengths",
        required  |-> TRUE,
        satisfied |-> skillsSatisfied(sks),
        tips      |-> <<"Group skills by tooling, methodologies, and domains.",
                        "Mirror keywords used in your target job descriptions.">>] >>

\* Mutant: only the required items gate the flag.
completeRequiredOnly(cl) == \A i \in DOMAIN cl : cl[i].required => cl[i].satisfied

\* ChecklistPanel, lines 165-166 and 181: the overall flag, the number of
\* satisfied items and the total shown after it.
complete(cl) == \A i \in DOMAIN cl : cl[i].satisfied

IsSatisfied(item) == item.satisfied

completedCount(cl) == Len(SelectSeq(cl, IsSatisfied))

total(cl) == Len(cl)

\* Mutant: the skills left out of the dependency array.
checklistDepsWithoutSkills(p, exps, edus, projs, sks) == <<p, exps, edus>>

\* The dependency array of the useMemo, line 544.
checklistDeps(p, exps, edus, projs, sks) == <<p, exps, edus, sks>>

\* A render after a state update: useMemo recomputes the checklist when a
\* dependency changed and returns the cached array otherwise.
RenderChecklist ==
    checklist' =
        IF checklistDeps(personal', experiences', educations', projects', skills')
               # checklistDeps(personal, experiences, educations, projects, skills)
        THEN computeChecklist(personal', experiences', educations', skills')
        ELSE checklist

\* The getSuggestedBullets calls of a render, lines 717-721: one per
\* experience from entry k on, each on the RegExp objects the call before
\* left.
RECURSIVE suggestionCalls(_, _, _, _)
suggestionCalls(exps, summary, li, k) ==
    IF k > Len(exps) THEN [calls |-> <<>>, lastIndex |-> li]
    ELSE LET role == exps[k].role \o <<" ">> \o exps[k].company
             r    == getSuggestedBullets(role, summary, li)
             rest == suggestionCalls(exps, summary, r.lastIndex, k + 1)
         IN  [calls     |-> <<[role |-> role, summary |-> summary,
                               result |-> r.result]>> \o rest.calls,
              lastIndex |-> rest.lastIndex]

RenderSuggestions ==
    LET r == suggestionCalls(experiences', personal'.summary, lastIndex, 1)
    IN  /\ calls' = r.calls
        /\ lastIndex' = r.lastIndex

(***************************************************************************)
(* The state after construction, lines 473-483.  Identifiers are compared  *)
(* for equality only, so the four first ones are named 1 to 4.             *)
(***************************************************************************)

InitDocument ==
    /\ personal = basePersonalInfo
    /\ experiences = <<createExperience(1)>>
    /\ educations = <<createEducation(2)>>
    /\ projects = <<createProject(3)>>
    /\ skills = <<initialSkillBlock(4)>>
    /\ issued = {1, 2, 3, 4}
    /\ checklist = computeChecklist(personal, experiences, educations, skills)
    /\ lastIndex = [k \in DOMAIN roleSuggestionLibrary |-> 0]

document == <<personal, experiences, educations, projects, skills, issued, checklist>>

\* The host of a page in a browser: a window, nothing downloaded or printed
\* yet, no exception left uncaught by a handler.
BrowserHost == [window |-> TRUE, downloads |-> <<>>, prints |-> 0, thrown |-> 0]

(***************************************************************************)
(* SpecSuggest: getSuggestedBullets as a function, called on inputs drawn  *)
(* from SuggestInputs, any number of times.                                *)
(***************************************************************************)

\* "Senior Software Engineer"
SeniorSoftwareEngineer ==
    <<"S", "e", "n", "i", "o", "r", " ", "S", "o", "f", "t", "w", "a", "r", "e", " ", "E",
      "n", "g", "i", "n", "e", "e", "r">>

\* "Product Manager"
ProductManager ==
    <<"P", "r", "o", "d", "u", "c", "t", " ", "M", "a", "n", "a", "g", "e", "r">>

\* "UX Designer"
UxDesigner ==
    <<"U", "X", " ", "D", "e", "s", "i", "g", "n", "e", "r">>

\* "Data Scientist"
DataScientist ==
    <<"D", "a", "t", "a", " ", "S", "c", "i", "e", "n", "t", "i", "s", "t">>

\* "FULL \t STACK"
FullStackUpper ==
    <<"F", "U", "L", "L", " ", "\t", " ", "S", "T", "A", "C", "K">>

\* "fullstack"
Fullstack ==
    <<"f", "u", "l", "l", "s", "t", "a", "c", "k">>

\* "development"
Development ==
    <<"d", "e", "v", "e", "l", "o", "p", "m", "e", "n", "t">>

\* "Teacher"
Teacher ==
    <<"T", "e", "a", "c", "h", "e", "r">>

\* "product  lead"
ProductTwoSpacesLead ==
    <<"p", "r", "o", "d", "u", "c", "t", " ", " ", "l", "e", "a", "d">>

\* "Web PM, data UI"
PmDataUiEngineer ==
    <<"W", "e", "b", " ", "P", "M", ",", " ", "d", "a", "t", "a", " ", "U", "I">>

SuggestInputs ==
    {<<>>, <<" ">>, SeniorSoftwareEngineer, ProductManager, UxDesigner,
     DataScientist, FullStackUpper, Fullstack, Development, Teacher,
     ProductTwoSpacesLead, PmDataUiEngineer}

NoArgs == <<>>

InitSuggest ==
    /\ InitDocument
    /\ args \in [role : SuggestInputs, summary : SuggestInputs]
    /\ calls = <<>>
    /\ snap = <<>>
    /\ host = BrowserHost

CallSuggest ==
    /\ calls = <<>>
    /\ LET r == getSuggestedBullets(args.role, args.summary, lastIndex)
       IN  /\ calls' = <<[role |-> args.role, summary |-> args.summary,
                          result |-> r.result]>>
           /\ lastIndex' = r.lastIndex
    /\ UNCHANGED <<document, args, snap, host>>

NextSuggest == CallSuggest

SpecSuggest == InitSuggest /\ [][NextSuggest]_vars

(***************************************************************************)
(* The handlers, lines 546-573 and the onChange and onClick callbacks of   *)
(* the form.  Each sets one piece of the document; the actions below add   *)
(* the render that follows the state update.                               *)
(***************************************************************************)

\* { ...record, ...updates }
Merge(record, updates) ==
    [f \in DOMAIN record \cup DOMAIN updates |->
        IF f \in DOMAIN updates THEN updates[f] ELSE record[f]]

\* Mutant: the updates merged into every record, whatever its identifier.
MapMergeAll(prev, id, updates) ==
    [i \in DOMAIN prev |-> Merge(prev[i], updates)]

\* prev.map((item) => (item.id === id ? { ...item, ...updates } : item))
MapMerge(prev, id, updates) ==
    [i \in DOMAIN prev |->
        IF prev[i].id = id THEN Merge(prev[i], updates) ELSE prev[i]]

\* prev.filter((item) => item.id !== id)
RECURSIVE FilterOut(_, _)
FilterOut(prev, id) ==
    IF prev = <<>> THEN <<>>
    ELSE (IF Head(prev).id # id THEN <<Head(prev)>> ELSE <<>>)
         \o FilterOut(Tail(prev), id)

\* setPersonal((prev) => ({ ...prev, [field]: value })), lines 610-693
setPersonalField(field, value) ==
    personal' = Merge(personal, [f \in {field} |-> value])

handleExperienceChange(id, updates) ==
    experiences' = MapMerge(experiences, id, updates)

handleEducationChange(id, updates) ==
    educations' = MapMerge(educations, id, updates)

handleProjectChange(id, updates) ==
    projects' = MapMerge(projects, id, updates)

handleSkillChange(id, updates) ==
    skills' = MapMerge(skills, id, updates)

\* value.split("\n"): the pieces of s between the line feeds
RECURSIVE split(_, _)
split(s, piece) ==
    IF s = <<>> THEN <<piece>>
    ELSE IF Head(s) = "\n" THEN <<piece>> \o split(Tail(s), <<>>)
    ELSE split(Tail(s), Append(piece, Head(s)))

\* Mutant: the filter before the map.
RECURSIVE nonEmptyTrimmed(_)
nonEmptyTrimmed(lines) ==
    IF lines = <<>> THEN <<>>
    ELSE (IF Len(Head(lines)) > 0 THEN <<trim(Head(lines))>> ELSE <<>>)
         \o nonEmptyTrimmed(Tail(lines))

\* .map((line) => line.trim()).filter((line) => line.length > 0)
RECURSIVE trimmedNonEmpty(_)
trimmedNonEmpty(lines) ==
    IF lines = <<>> THEN <<>>
    ELSE (IF Len(trim(Head(lines))) > 0 THEN <<trim(Head(lines))>> ELSE <<>>)
         \o trimmedNonEmpty(Tail(lines))

\* The bullets a text-area value stands for, lines 788-791.
linesOf(value) == trimmedNonEmpty(split(value, <<>>))

\* Boolean(s) of a string s: false of the empty string only
Boolean(s) == s # <<>>

\* The highlights a text-area value stands for, lines 892-895:
\* .split("\n").map((line) => line.trim()).filter(Boolean)
highlightsOf(value) ==
    LET pieces == split(value, <<>>)
    IN  SelectSeq([n \in DOMAIN pieces |-> trim(pieces[n])], Boolean)

\* "Add role", line 708
addExperience ==
    \E id \in generateId(issued) :
        /\ experiences' = Append(experiences, createExperience(id))
        /\ issued' = issued \cup {id}

\* Mutant: the button rendered whatever the length of the list.
removeExperienceUnguarded(id) == experiences' = FilterOut(experiences, id)

\* "Remove role", lines 818-824: the button is rendered only when there is
\* more than one experience.
removeExperience(id) ==
    /\ Len(experiences) > 1
    /\ experiences' = FilterOut(experiences, id)

\* "Add education", line 925
addEducation ==
    \E id \in generateId(issued) :
        /\ educations' = Append(educations, createEducation(id))
        /\ issued' = issued \cup {id}

\* "Remove education", lines 1001-1007
removeEducation(id) ==
    /\ Len(educations) > 1
    /\ educations' = FilterOut(educations, id)

\* "Add project", line 844
addProject ==
    \E id \in generateId(issued) :
        /\ projects' = Append(projects, createProject(id))
        /\ issued' = issued \cup {id}

\* "Remove project", lines 899-905
removeProject(id) ==
    /\ Len(projects) > 1
    /\ projects' = FilterOut(projects, id)

\* "Add block", line 1026
addSkillBlock ==
    \E id \in generateId(issued) :
        /\ skills' = Append(skills, createSkillBlock(id))
        /\ issued' = issued \cup {id}

\* "Remove block", lines 1059-1065
removeSkillBlock(id) ==
    /\ Len(skills) > 1
    /\ skills' = FilterOut(skills, id)

\* The add buttons of a session that edits the text of the form.
SessionIdsLeft == Cardinality(issued) < MaxSessionIds

\* What a handler of the specifications below leaves alone: they observe no
\* getSuggestedBullets call, and a call leaves nothing behind in a RegExp
\* that carries neither the g nor the y flag.
NoSuggestionProbe == UNCHANGED <<lastIndex, args, calls, snap, host>>

(***************************************************************************)
(* SpecSession: an editing session in which every render calls             *)
(* getSuggestedBullets once per experience (lines 717-721) on the role,    *)
(* the (empty) company and the summary of the moment; snap keeps one       *)
(* earlier call for comparison with the later ones.                        *)
(***************************************************************************)

Web == <<"W", "e", "b">>

Ux == <<"U", "X">>

Data == <<"d", "a", "t", "a">>

SessionRoles == {<<>>, Web, Ux}

SessionSummaries == {<<>>, Data}

InitSession ==
    /\ InitDocument
    /\ args = NoArgs
    /\ LET r == suggestionCalls(experiences, personal.summary,
                                [k \in DOMAIN roleSuggestionLibrary |-> 0], 1)
       IN  calls = r.calls
    /\ snap = <<>>
    /\ host = BrowserHost

SessionEditRole ==
    /\ \E i \in DOMAIN experiences, v \in SessionRoles :
           handleExperienceChange(experiences[i].id, [role |-> v])
    /\ UNCHANGED <<personal, educations, projects, skills, issued, args, snap, host>>
    /\ RenderChecklist
    /\ RenderSuggestions

SessionEditSummary ==
    /\ \E v \in SessionSummaries : setPersonalField("summary", v)
    /\ UNCHANGED <<experiences, educations, projects, skills, issued, args, snap, host>>
    /\ RenderChecklist
    /\ RenderSuggestions

SessionAddRole ==
    /\ SessionIdsLeft
    /\ addExperience
    /\ UNCHANGED <<personal, educations, projects, skills, args, snap, host>>
    /\ RenderChecklist
    /\ RenderSuggestions

SessionRemoveRole ==
    /\ \E i \in DOMAIN experiences : removeExperience(experiences[i].id)
    /\ UNCHANGED <<personal, educations, projects, skills, issued, args, snap, host>>
    /\ RenderChecklist
    /\ RenderSuggestions

\* Remember one call of the latest render.
SessionObserve ==
    /\ \E i \in DOMAIN calls : snap' = <<calls[i]>>
    /\ UNCHANGED <<document, lastIndex, args, calls, host>>

NextSession ==
    \/ SessionEditRole
    \/ SessionEditSummary
    \/ SessionAddRole
    \/ SessionRemoveRole
    \/ SessionObserve

SpecSession == InitSession /\ [][NextSession]_vars

(***************************************************************************)
(* SpecPersonal: the eight fields of the personal section, edited in any   *)
(* order.  The values tell the empty string, a string of white space and a *)
(* string with text apart; the summary values stand on both sides of the   *)
(* 60-character threshold.                                                 *)
(***************************************************************************)

Blank == <<" ", "\t">>

\* " Ada\n"
PaddedAda == <<" ", "A", "d", "a", "\n">>

ContactValues == {<<>>, Blank, PaddedAda}

OtherValues == {<<>>, <<"x">>}

SummaryValues ==
    {<<>>,
     Repeat(" ", 70),
     Repeat("a", 60),
     Repeat("a", 61),
     <<" ">> \o Repeat("a", 60) \o <<"\n">>,
     <<"\t">> \o Repeat("a", 30) \o <<" ">> \o Repeat("b", 30) \o <<" ">>}

InitPersonal ==
    /\ InitDocument
    /\ args = NoArgs
    /\ calls = <<>>
    /\ snap = <<>>
    /\ host = BrowserHost

PersonalFrame ==
    /\ UNCHANGED <<experiences, educations, projects, skills, issued>>
    /\ RenderChecklist
    /\ NoSuggestionProbe

EditFullName ==
    (\E v \in ContactValues : setPersonalField("fullName", v)) /\ PersonalFrame

EditHeadline ==
    (\E v \in ContactValues : setPersonalField("headline", v)) /\ PersonalFrame

EditSummary ==
    (\E v \in SummaryValues : setPersonalField("summary", v)) /\ PersonalFrame

EditEmail ==
    (\E v \in ContactValues : setPersonalField("email", v)) /\ PersonalFrame

EditPhone ==
    (\E v \in OtherValues : setPersonalField("phone", v)) /\ PersonalFrame

EditLocation ==
    (\E v \in ContactValues : setPersonalField("location", v)) /\ PersonalFrame

EditWebsite ==
    (\E v \in OtherValues : setPersonalField("website", v)) /\ PersonalFrame

EditLinkedin ==
    (\E v \in OtherValues : setPersonalField("linkedin", v)) /\ PersonalFrame

NextPersonal ==
    \/ EditFullName
    \/ EditHeadline
    \/ EditSummary
    \/ EditEmail
    \/ EditPhone
    \/ EditLocation
    \/ EditWebsite
    \/ EditLinkedin

SpecPersonal == InitPersonal /\ [][NextPersonal]_vars

(***************************************************************************)
(* SpecExperience: the experience section.  Roles are added and removed,   *)
(* the role field and the bullets text area are edited.                    *)
(***************************************************************************)

\* The values typed into the bullets text area.
\* "a"
OneLine == <<"a">>

\* "a\n \t\n b " : two bullets and a line of white space between them
TwoLinesAndBlank == <<"a", "\n", " ", "\t", "\n", " ", "b", " ">>

\* "a\nb\nc"
ThreeLines == <<"a", "\n", "b", "\n", "c">>

\* "a\nb\nc\n\nd"
FourLines == <<"a", "\n", "b", "\n", "c", "\n", "\n", "d">>

BulletTexts == {<<>>, OneLine, TwoLinesAndBlank, ThreeLines, FourLines}

ExperienceRoles == {<<>>, Web}

ExperienceFrame ==
    /\ UNCHANGED <<personal, educations, projects, skills>>
    /\ RenderChecklist
    /\ NoSuggestionProbe

ExperienceEditRole ==
    /\ \E i \in DOMAIN experiences, v \in ExperienceRoles :
           handleExperienceChange(experiences[i].id, [role |-> v])
    /\ UNCHANGED issued
    /\ ExperienceFrame

\* onChange of the text area, lines 786-793
ExperienceEditBullets ==
    /\ \E i \in DOMAIN experiences, text \in BulletTexts :
           handleExperienceChange(experiences[i].id, [bullets |-> linesOf(text)])
    /\ UNCHANGED issued
    /\ ExperienceFrame

ExperienceAdd == SessionIdsLeft /\ addExperience /\ ExperienceFrame

ExperienceRemove ==
    /\ \E i \in DOMAIN experiences : removeExperience(experiences[i].id)
    /\ UNCHANGED issued
    /\ ExperienceFrame

NextExperience ==
    \/ ExperienceEditRole
    \/ ExperienceEditBullets
    \/ ExperienceAdd
    \/ ExperienceRemove

SpecExperience == InitPersonal /\ [][NextExperience]_vars

(***************************************************************************)
(* SpecEducation: the education section.  Entries are added and removed;   *)
(* the degree, the details and, of the fields the checklist does not read, *)
(* the institution are edited.                                             *)
(***************************************************************************)

\* " BSc"
PaddedBsc == <<" ", "B", "S", "c">>

\* "Honors\n"
HonorsLine == <<"H", "o", "n", "o", "r", "s", "\n">>

Mit == <<"M", "I", "T">>

DegreeValues == {<<>>, Blank, PaddedBsc}

DetailsValues == {<<>>, <<"\n">>, HonorsLine}

SchoolValues == {<<>>, Mit}

EducationFrame ==
    /\ UNCHANGED <<personal, experiences, projects, skills>>
    /\ RenderChecklist
    /\ NoSuggestionProbe

EducationEditSchool ==
    /\ \E i \in DOMAIN educations, v \in SchoolValues :
           handleEducationChange(educations[i].id, [school |-> v])
    /\ UNCHANGED issued
    /\ EducationFrame

EducationEditDegree ==
    /\ \E i \in DOMAIN educations, v \in DegreeValues :
           handleEducationChange(educations[i].id, [degree |-> v])
    /\ UNCHANGED issued
    /\ EducationFrame

EducationEditDetails ==
    /\ \E i \in DOMAIN educations, v \in DetailsValues :
           handleEducationChange(educations[i].id, [details |-> v])
    /\ UNCHANGED issued
    /\ EducationFrame

EducationAdd == SessionIdsLeft /\ addEducation /\ EducationFrame

EducationRemove ==
    /\ \E i \in DOMAIN educations : removeEducation(educations[i].id)
    /\ UNCHANGED issued
    /\ EducationFrame

NextEducation ==
    \/ EducationEditSchool
    \/ EducationEditDegree
    \/ EducationEditDetails
    \/ EducationAdd
    \/ EducationRemove

SpecEducation == InitPersonal /\ [][NextEducation]_vars

(***************************************************************************)
(* SpecChecklist: a session over the whole form in which every checklist   *)
(* item can be brought to satisfied and back: the four contact fields and  *)
(* the summary are typed in or cleared, the bullets of an experience, the  *)
(* degree of an education entry and the items of a skill block are edited, *)
(* and entries of the three lists are added and removed.                   *)
(***************************************************************************)

\* "Ada"
Ada == <<"A", "d", "a">>

\* "TS, SQL"
SkillItems == <<"T", "S", ",", " ", "S", "Q", "L">>

FormContactValues == {<<>>, Ada}

FormSummaryValues == {<<>>, Repeat("a", 61)}

FormBulletTexts == {<<>>, ThreeLines}

FormDegreeValues == {<<>>, PaddedBsc}

FormItemsValues == {<<>>, SkillItems}

FormFrame == RenderChecklist /\ NoSuggestionProbe

FormEditFullName ==
    /\ \E v \in FormContactValues : setPersonalField("fullName", v)
    /\ UNCHANGED <<experiences, educations, projects, skills, issued>>
    /\ FormFrame

FormEditHeadline ==
    /\ \E v \in FormContactValues : setPersonalField("headline", v)
    /\ UNCHANGED <<experiences, educations, projects, skills, issued>>
    /\ FormFrame

FormEditEmail ==
    /\ \E v \in FormContactValues : setPersonalField("email", v)
    /\ UNCHANGED <<experiences, educations, projects, skills, issued>>
    /\ FormFrame

FormEditLocation ==
    /\ \E v \in FormContactValues : setPersonalField("location", v)
    /\ UNCHANGED <<experiences, educations, projects, skills, issued>>
    /\ FormFrame

FormEditSummary ==
    /\ \E v \in FormSummaryValues : setPersonalField("summary", v)
    /\ UNCHANGED <<experiences, educations, projects, skills, issued>>
    /\ FormFrame

FormEditBullets ==
    /\ \E i \in DOMAIN experiences, text \in FormBulletTexts :
           handleExperienceChange(experiences[i].id, [bullets |-> linesOf(text)])
    /\ UNCHANGED <<personal, educations, projects, skills, issued>>
    /\ FormFrame

FormEditDegree ==
    /\ \E i \in DOMAIN educations, v \in FormDegreeValues :
           handleEducationChange(educations[i].id, [degree |-> v])
    /\ UNCHANGED <<personal, experiences, projects, skills, issued>>
    /\ FormFrame

\* onChange of the skills text area, lines 1052-1056
FormEditItems ==
    /\ \E i \in DOMAIN skills, v \in FormItemsValues :
           handleSkillChange(skills[i].id, [items |-> v])
    /\ UNCHANGED <<personal, experiences, educations, projects, issued>>
    /\ FormFrame

FormAddRole ==
    /\ SessionIdsLeft
    /\ addExperience
    /\ UNCHANGED <<personal, educations, projects, skills>>
    /\ FormFrame

FormRemoveRole ==
    /\ \E i \in DOMAIN experiences : removeExperience(experiences[i].id)
    /\ UNCHANGED <<personal, educations, projects, skills, issued>>
    /\ FormFrame

FormAddEducation ==
    /\ SessionIdsLeft
    /\ addEducation
    /\ UNCHANGED <<personal, experiences, projects, skills>>
    /\ FormFrame

FormRemoveEducation ==
    /\ \E i \in DOMAIN educations : removeEducation(educations[i].id)
    /\ UNCHANGED <<personal, experiences, projects, skills, issued>>
    /\ FormFrame

FormAddBlock ==
    /\ SessionIdsLeft
    /\ addSkillBlock
    /\ UNCHANGED <<personal, experiences, educations, projects>>
    /\ FormFrame

FormRemoveBlock ==
    /\ \E i \in DOMAIN skills : removeSkillBlock(skills[i].id)
    /\ UNCHANGED <<personal, experiences, educations, projects, issued>>
    /\ FormFrame

NextChecklist ==
    \/ FormEditFullName
    \/ FormEditHeadline
    \/ FormEditEmail
    \/ FormEditLocation
    \/ FormEditSummary
    \/ FormEditBullets
    \/ FormEditDegree
    \/ FormEditItems
    \/ FormAddRole
    \/ FormRemoveRole
    \/ FormAddEducation
    \/ FormRemoveEducation
    \/ FormAddBlock
    \/ FormRemoveBlock

SpecChecklist == InitPersonal /\ [][NextChecklist]_vars

(***************************************************************************)
(* SpecSkills: the skills section.  Blocks are added and removed; the      *)
(* label and the items text area of a block are edited.  The first block   *)
(* starts with the label "Core" and no items.                              *)
(***************************************************************************)

\* "Tools"
Tools == <<"T", "o", "o", "l", "s">>

\* " TS, SQL\n"
PaddedItems == <<" ", "T", "S", ",", " ", "S", "Q", "L", "\n">>

LabelValues == {<<>>, Tools}

ItemsValues == {<<>>, Blank, PaddedItems}

SkillsFrame ==
    /\ UNCHANGED <<personal, experiences, educations, projects>>
    /\ RenderChecklist
    /\ NoSuggestionProbe

\* onChange of the label field, lines 1042-1046
SkillsEditLabel ==
    /\ \E i \in DOMAIN skills, v \in LabelValues :
           handleSkillChange(skills[i].id, [label |-> v])
    /\ UNCHANGED issued
    /\ SkillsFrame

\* onChange of the items text area, lines 1052-1056
SkillsEditItems ==
    /\ \E i \in DOMAIN skills, v \in ItemsValues :
           handleSkillChange(skills[i].id, [items |-> v])
    /\ UNCHANGED issued
    /\ SkillsFrame

SkillsAdd == SessionIdsLeft /\ addSkillBlock /\ SkillsFrame

SkillsRemove ==
    /\ \E i \in DOMAIN skills : removeSkillBlock(skills[i].id)
    /\ UNCHANGED issued
    /\ SkillsFrame

NextSkills ==
    \/ SkillsEditLabel
    \/ SkillsEditItems
    \/ SkillsAdd
    \/ SkillsRemove

SpecSkills == InitPersonal /\ [][NextSkills]_vars

(***************************************************************************)
(* SpecLists: the four lists of the document.  Entries are added until the *)
(* identifiers of the pool are used up and removed, and the role of an     *)
(* experience is edited.  snap keeps the identifiers of the records        *)
(* removed so far and of the records created after a removal.              *)
(***************************************************************************)

InitLists ==
    /\ InitDocument
    /\ args = NoArgs
    /\ calls = <<>>
    /\ snap = [removed |-> {}, later |-> {}]
    /\ host = BrowserHost

LastId(list) == list[Len(list)].id

ListsRender == RenderChecklist /\ UNCHANGED <<lastIndex, args, calls, host>>

ListsAfterAdd(id) ==
    /\ snap' = [snap EXCEPT !.later = IF snap.removed = {} THEN @ ELSE @ \cup {id}]
    /\ ListsRender

ListsAfterRemove(id) ==
    /\ snap' = [snap EXCEPT !.removed = @ \cup {id}]
    /\ UNCHANGED issued
    /\ ListsRender

ListsAddRole ==
    /\ addExperience
    /\ UNCHANGED <<personal, educations, projects, skills>>
    /\ ListsAfterAdd(LastId(experiences'))

ListsAddEducation ==
    /\ addEducation
    /\ UNCHANGED <<personal, experiences, projects, skills>>
    /\ ListsAfterAdd(LastId(educations'))

ListsAddProject ==
    /\ addProject
    /\ UNCHANGED <<personal, experiences, educations, skills>>
    /\ ListsAfterAdd(LastId(projects'))

ListsAddBlock ==
    /\ addSkillBlock
    /\ UNCHANGED <<personal, experiences, educations, projects>>
    /\ ListsAfterAdd(LastId(skills'))

\* A click on the remove button of the record id.
RemoveRole(id) ==
    /\ UNCHANGED <<personal, educations, projects, skills>>
    /\ removeExperience(id)
    /\ ListsAfterRemove(id)

RemoveEducation(id) ==
    /\ UNCHANGED <<personal, experiences, projects, skills>>
    /\ removeEducation(id)
    /\ ListsAfterRemove(id)

RemoveProject(id) ==
    /\ UNCHANGED <<personal, experiences, educations, skills>>
    /\ removeProject(id)
    /\ ListsAfterRemove(id)

RemoveBlock(id) ==
    /\ UNCHANGED <<personal, experiences, educations, projects>>
    /\ removeSkillBlock(id)
    /\ ListsAfterRemove(id)

\* The buttons are rendered per record of the list, lines 717, 852, 934, 1034.
ListsRemoveRole == \E i \in DOMAIN experiences : RemoveRole(experiences[i].id)

ListsRemoveEducation == \E i \in DOMAIN educations : RemoveEducation(educations[i].id)

ListsRemoveProject == \E i \in DOMAIN projects : RemoveProject(projects[i].id)

ListsRemoveBlock == \E i \in DOMAIN skills : RemoveBlock(skills[i].id)

ListsEditRole ==
    /\ UNCHANGED <<personal, educations, projects, skills, issued, snap>>
    /\ \E i \in DOMAIN experiences, v \in ExperienceRoles :
           handleExperienceChange(experiences[i].id, [role |-> v])
    /\ ListsRender

NextLists ==
    \/ ListsAddRole
    \/ ListsAddEducation
    \/ ListsAddProject
    \/ ListsAddBlock
    \/ ListsRemoveRole
    \/ ListsRemoveEducation
    \/ ListsRemoveProject
    \/ ListsRemoveBlock
    \/ ListsEditRole

SpecLists == InitLists /\ [][NextLists]_vars

(***************************************************************************)
(* SpecUpdates: the four update handlers, each called on one field with    *)
(* the empty string or a text.  The form calls a handler with the          *)
(* identifier of a record on the screen; the handler itself takes any      *)
(* identifier, and the calls below also pass identifiers that no record of *)
(* the list carries.                                                       *)
(***************************************************************************)

UpdateValues == {<<>>, Web}

UpdatesRender == RenderChecklist /\ NoSuggestionProbe

UpdateRole(id, v) ==
    /\ handleExperienceChange(id, [role |-> v])
    /\ UNCHANGED <<personal, educations, projects, skills, issued>>
    /\ UpdatesRender

UpdateDegree(id, v) ==
    /\ handleEducationChange(id, [degree |-> v])
    /\ UNCHANGED <<personal, experiences, projects, skills, issued>>
    /\ UpdatesRender

UpdateName(id, v) ==
    /\ handleProjectChange(id, [name |-> v])
    /\ UNCHANGED <<personal, experiences, educations, skills, issued>>
    /\ UpdatesRender

UpdateLabel(id, v) ==
    /\ handleSkillChange(id, [label |-> v])
    /\ UNCHANGED <<personal, experiences, educations, projects, issued>>
    /\ UpdatesRender

UpdatesEditRole == \E id \in IdPool, v \in UpdateValues : UpdateRole(id, v)

UpdatesEditDegree == \E id \in IdPool, v \in UpdateValues : UpdateDegree(id, v)

UpdatesEditName == \E id \in IdPool, v \in UpdateValues : UpdateName(id, v)

UpdatesEditLabel == \E id \in IdPool, v \in UpdateValues : UpdateLabel(id, v)

UpdatesAddRole ==
    /\ SessionIdsLeft
    /\ addExperience
    /\ UNCHANGED <<personal, educations, projects, skills>>
    /\ UpdatesRender

UpdatesAddEducation ==
    /\ SessionIdsLeft
    /\ addEducation
    /\ UNCHANGED <<personal, experiences, projects, skills>>
    /\ UpdatesRender

UpdatesAddProject ==
    /\ SessionIdsLeft
    /\ addProject
    /\ UNCHANGED <<personal, experiences, educations, skills>>
    /\ UpdatesRender

UpdatesAddBlock ==
    /\ SessionIdsLeft
    /\ addSkillBlock
    /\ UNCHANGED <<personal, experiences, educations, projects>>
    /\ UpdatesRender

NextUpdates ==
    \/ UpdatesEditRole
    \/ UpdatesEditDegree
    \/ UpdatesEditName
    \/ UpdatesEditLabel
    \/ UpdatesAddRole
    \/ UpdatesAddEducation
    \/ UpdatesAddProject
    \/ UpdatesAddBlock

SpecUpdates == InitPersonal /\ [][NextUpdates]_vars

(***************************************************************************)
(* JSON.stringify(value, null, 2), line 577, and JSON.parse, by which the  *)
(* exported text is read back: ECMA-262, 25.5.  A JavaScript value is a    *)
(* string, an array of values or an object, whose properties are kept in   *)
(* the order of their creation; the document holds no other kind of value. *)
(* Of the characters below U+0020 the model has the tab, the line feed,    *)
(* the form feed and the carriage return.                                  *)
(***************************************************************************)

JsString(s) == [type |-> "string", value |-> s]

JsArray(items) == [type |-> "array", value |-> items]

\* props: a sequence of <<name, value>> pairs
JsObject(props) == [type |-> "object", value |-> props]

\* Mutant: the quotation mark and the backslash written as they are.
EscapeOfNothing(c) ==
    CASE c = "\n" -> <<"\\", "n">>
      [] c = "\t" -> <<"\\", "t">>
      [] c = "\r" -> <<"\\", "r">>
      [] c = "\f" -> <<"\\", "f">>
      [] OTHER -> <<c>>

\* QuoteJSONString, the escape of one character
EscapeOf(c) ==
    CASE c = "\"" -> <<"\\", "\"">>
      [] c = "\\" -> <<"\\", "\\">>
      [] c = "\n" -> <<"\\", "n">>
      [] c = "\t" -> <<"\\", "t">>
      [] c = "\r" -> <<"\\", "r">>
      [] c = "\f" -> <<"\\", "f">>
      [] OTHER -> <<c>>

RECURSIVE QuoteChars(_, _)
QuoteChars(s, i) ==
    IF i > Len(s) THEN <<>> ELSE EscapeOf(s[i]) \o QuoteChars(s, i + 1)

QuoteJSONString(s) == <<"\"">> \o QuoteChars(s, 1) \o <<"\"">>

\* The third argument of JSON.stringify, line 580.
ExportIndent == 2

Indentation(depth) == Repeat(" ", ExportIndent * depth)

\* SerializeJSONProperty, SerializeJSONArray and SerializeJSONObject with a gap
RECURSIVE SerializeJSONProperty(_, _)
RECURSIVE SerializeElements(_, _, _)
RECURSIVE SerializeMembers(_, _, _)
SerializeJSONProperty(v, depth) ==
    CASE v.type = "string" -> QuoteJSONString(v.value)
      [] v.type = "array" ->
             IF v.value = <<>> THEN <<"[", "]">>
             ELSE <<"[", "\n">> \o SerializeElements(v.value, 1, depth + 1)
                  \o <<"\n">> \o Indentation(depth) \o <<"]">>
      [] v.type = "object" ->
             IF v.value = <<>> THEN <<"{", "}">>
             ELSE <<"{", "\n">> \o SerializeMembers(v.value, 1, depth + 1)
                  \o <<"\n">> \o Indentation(depth) \o <<"}">>

SerializeElements(items, k, depth) ==
    Indentation(depth) \o SerializeJSONProperty(items[k], depth)
    \o (IF k < Len(items)
        THEN <<",", "\n">> \o SerializeElements(items, k + 1, depth) ELSE <<>>)

SerializeMembers(props, k, depth) ==
    Indentation(depth) \o QuoteJSONString(props[k][1]) \o <<":", " ">>
    \o SerializeJSONProperty(props[k][2], depth)
    \o (IF k < Len(props)
        THEN <<",", "\n">> \o SerializeMembers(props, k + 1, depth) ELSE <<>>)

stringify(value) == SerializeJSONProperty(value, 0)

\* JSON.parse.  A result is [ok |-> TRUE, value, next], next being the index
\* after the value, or SyntaxError.
SyntaxError == [ok |-> FALSE]

JsonWhiteSpace == {" ", "\t", "\n", "\r"}

RECURSIVE SkipWhiteSpace(_, _)
SkipWhiteSpace(text, i) ==
    IF i <= Len(text) /\ text[i] \in JsonWhiteSpace
    THEN SkipWhiteSpace(text, i + 1) ELSE i

\* the character an escape stands for (\b and \uXXXX stand for characters the
\* model does not have)
Unescaped ==
    [c \in {"\"", "\\", "/", "n", "t", "r", "f"} |->
        CASE c = "n" -> "\n" [] c = "t" -> "\t" [] c = "r" -> "\r"
          [] c = "f" -> "\f" [] OTHER -> c]

\* the characters of a string after its opening quotation mark
RECURSIVE ParseString(_, _, _)
ParseString(text, i, acc) ==
    IF i > Len(text) THEN SyntaxError
    ELSE IF text[i] = "\"" THEN [ok |-> TRUE, value |-> JsString(acc), next |-> i + 1]
    ELSE IF text[i] = "\\"
         THEN IF i + 1 <= Len(text) /\ text[i + 1] \in DOMAIN Unescaped
              THEN ParseString(text, i + 2, Append(acc, Unescaped[text[i + 1]]))
              ELSE SyntaxError
    ELSE IF text[i] \in {"\n", "\t", "\r", "\f"} THEN SyntaxError
    ELSE ParseString(text, i + 1, Append(acc, text[i]))

RECURSIVE ParseValue(_, _)
RECURSIVE ParseElements(_, _, _)
RECURSIVE ParseMembers(_, _, _)
ParseValue(text, from) ==
    LET i == SkipWhiteSpace(text, from)
    IN  IF i > Len(text) THEN SyntaxError
        ELSE IF text[i] = "\"" THEN ParseString(text, i + 1, <<>>)
        ELSE IF text[i] = "["
             THEN LET j == SkipWhiteSpace(text, i + 1)
                  IN  IF j <= Len(text) /\ text[j] = "]"
                      THEN [ok |-> TRUE, value |-> JsArray(<<>>), next |-> j + 1]
                      ELSE ParseElements(text, i + 1, <<>>)
        ELSE IF text[i] = "{"
             THEN LET j == SkipWhiteSpace(text, i + 1)
                  IN  IF j <= Len(text) /\ text[j] = "}"
                      THEN [ok |-> TRUE, value |-> JsObject(<<>>), next |-> j + 1]
                      ELSE ParseMembers(text, i + 1, <<>>)
        ELSE SyntaxError

ParseElements(text, from, acc) ==
    LET r == ParseValue(text, from)
    IN  IF ~r.ok THEN SyntaxError
        ELSE LET j == SkipWhiteSpace(text, r.next)
             IN  IF j > Len(text) THEN SyntaxError
                 ELSE IF text[j] = "," THEN ParseElements(text, j + 1, Append(acc, r.value))
                 ELSE IF text[j] = "]"
                      THEN [ok |-> TRUE, value |-> JsArray(Append(acc, r.value)),
                            next |-> j + 1]
                 ELSE SyntaxError

ParseMembers(text, from, acc) ==
    LET k == SkipWhiteSpace(text, from)
    IN  IF k > Len(text) \/ text[k] # "\"" THEN SyntaxError
        ELSE LET name == ParseString(text, k + 1, <<>>)
             IN  IF ~name.ok THEN SyntaxError
                 ELSE LET c == SkipWhiteSpace(text, name.next)
                      IN  IF c > Len(text) \/ text[c] # ":" THEN SyntaxError
                          ELSE LET r == ParseValue(text, c + 1)
                               IN  IF ~r.ok THEN SyntaxError
                                   ELSE LET j == SkipWhiteSpace(text, r.next)
                                            member == <<name.value.value, r.value>>
                                        IN  IF j > Len(text) THEN SyntaxError
                                            ELSE IF text[j] = ","
                                                 THEN ParseMembers(text, j + 1,
                                                                   Append(acc, member))
                                            ELSE IF text[j] = "}"
                                                 THEN [ok |-> TRUE,
                                                       value |-> JsObject(Append(acc, member)),
                                                       next |-> j + 1]
                                            ELSE SyntaxError

parse(text) ==
    LET r == ParseValue(text, 1)
    IN  IF r.ok /\ SkipWhiteSpace(text, r.next) > Len(text)
        THEN [ok |-> TRUE, value |-> r.value] ELSE SyntaxError

(***************************************************************************)
(* The document as the JavaScript value of line 578,                       *)
(* { personal, experiences, educations, projects, skills }: the property   *)
(* names in the order of the object literals of lines 58-67 and 126-158.   *)
(***************************************************************************)

\* the property names as character strings
KeyText ==
    [ personal |-> <<"p", "e", "r", "s", "o", "n", "a", "l">>,
     experiences |-> <<"e", "x", "p", "e", "r", "i", "e", "n", "c", "e", "s">>,
     educations |-> <<"e", "d", "u", "c", "a", "t", "i", "o", "n", "s">>,
     projects |-> <<"p", "r", "o", "j", "e", "c", "t", "s">>,
     skills |-> <<"s", "k", "i", "l", "l", "s">>,
     fullName |-> <<"f", "u", "l", "l", "N", "a", "m", "e">>,
     headline |-> <<"h", "e", "a", "d", "l", "i", "n", "e">>,
     email |-> <<"e", "m", "a", "i", "l">>,
     phone |-> <<"p", "h", "o", "n", "e">>,
     location |-> <<"l", "o", "c", "a", "t", "i", "o", "n">>,
     website |-> <<"w", "e", "b", "s", "i", "t", "e">>,
     linkedin |-> <<"l", "i", "n", "k", "e", "d", "i", "n">>,
     summary |-> <<"s", "u", "m", "m", "a", "r", "y">>,
     id |-> <<"i", "d">>,
     role |-> <<"r", "o", "l", "e">>,
     company |-> <<"c", "o", "m", "p", "a", "n", "y">>,
     startDate |-> <<"s", "t", "a", "r", "t", "D", "a", "t", "e">>,
     endDate |-> <<"e", "n", "d", "D", "a", "t", "e">>,
     bullets |-> <<"b", "u", "l", "l", "e", "t", "s">>,
     school |-> <<"s", "c", "h", "o", "o", "l">>,
     degree |-> <<"d", "e", "g", "r", "e", "e">>,
     details |-> <<"d", "e", "t", "a", "i", "l", "s">>,
     name |-> <<"n", "a", "m", "e">>,
     description |-> <<"d", "e", "s", "c", "r", "i", "p", "t", "i", "o", "n">>,
     link |-> <<"l", "i", "n", "k">>,
     highlights |-> <<"h", "i", "g", "h", "l", "i", "g", "h", "t", "s">>,
     label |-> <<"l", "a", "b", "e", "l">>,
     items |-> <<"i", "t", "e", "m", "s">>]

PersonalKeys ==
    <<"fullName", "headline", "email", "phone", "location", "website",
      "linkedin", "summary">>

ExperienceKeys == <<"id", "role", "company", "location", "startDate", "endDate", "bullets">>

EducationKeys == <<"id", "school", "degree", "startDate", "endDate", "details", "location">>

ProjectKeys == <<"id", "name", "description", "link", "highlights">>

SkillBlockKeys == <<"id", "label", "items">>

\* An identifier is a string of letters, digits and hyphens; identifier n is
\* written "id-n".
Digits == <<"1", "2", "3", "4", "5", "6", "7", "8", "9">>

IdText(id) == <<"i", "d", "-", Digits[id]>>

RECURSIVE JsStrings(_)
JsStrings(list) ==
    IF list = <<>> THEN <<>> ELSE <<JsString(Head(list))>> \o JsStrings(Tail(list))

JsField(record, key) ==
    IF key = "id" THEN JsString(IdText(record.id))
    ELSE IF key \in {"bullets", "highlights"} THEN JsArray(JsStrings(record[key]))
    ELSE JsString(record[key])

RECURSIVE JsProps(_, _, _)
JsProps(record, keys, k) ==
    IF k > Len(keys) THEN <<>>
    ELSE << <<KeyText[keys[k]], JsField(record, keys[k])>> >> \o JsProps(record, keys, k + 1)

JsRecord(record, keys) == JsObject(JsProps(record, keys, 1))

RECURSIVE JsRecords(_, _)
JsRecords(list, keys) ==
    IF list = <<>> THEN <<>>
    ELSE <<JsRecord(Head(list), keys)>> \o JsRecords(Tail(list), keys)

JsDocument(p, exps, edus, projs, sks) ==
    JsObject(<< <<KeyText.personal, JsRecord(p, PersonalKeys)>>,
                <<KeyText.experiences, JsArray(JsRecords(exps, ExperienceKeys))>>,
                <<KeyText.educations, JsArray(JsRecords(edus, EducationKeys))>>,
                <<KeyText.projects, JsArray(JsRecords(projs, ProjectKeys))>>,
                <<KeyText.skills, JsArray(JsRecords(sks, SkillBlockKeys))>> >>)

(***************************************************************************)
(* The export and print buttons, lines 575-596 and 1092-1099.  A click on  *)
(* the link of exportAsJson hands the host one file; window.print() asks   *)
(* the host for one print dialog.                                          *)
(***************************************************************************)

\* The most calls a session makes on the host.
MaxHostCalls == 2

HostCalls == Len(host.downloads) + host.prints

\* new Blob([json], { type: "application/json" }) behind a link with
\* download = "resume-builder-export.json", lines 582-586
ExportedFile(text) ==
    [download |-> "resume-builder-export.json", type |-> "application/json",
     text |-> text]

\* Mutant: no guard on the window; document.createElement throws where there
\* is no document.
exportAsJsonUnguarded ==
    host' = IF ~host.window THEN [host EXCEPT !.thrown = @ + 1]
            ELSE [host EXCEPT !.downloads =
                      Append(@, ExportedFile(stringify(
                          JsDocument(personal, experiences, educations,
                                     projects, skills))))]

\* exportAsJson, lines 575-591
exportAsJson ==
    host' = IF ~host.window THEN host
            ELSE [host EXCEPT !.downloads =
                      Append(@, ExportedFile(stringify(
                          JsDocument(personal, experiences, educations,
                                     projects, skills))))]

\* printable, lines 593-596
printable ==
    host' = IF ~host.window THEN host ELSE [host EXCEPT !.prints = @ + 1]

(***************************************************************************)
(* SpecExport: a session that edits the summary and the bullets with texts *)
(* that JSON has to escape, adds education entries, and clicks the export  *)
(* and print buttons, on a host with a window and on one without.          *)
(***************************************************************************)

\* "R&D" lead\ops, a tab, a second line
QuotedSummary ==
    <<"\"", "R", "&", "D", "\"", " ", "l", "e", "a", "d", "\\", "o", "p", "s",
      "\t", "x", "\n", "y">>

\* Cut "p95" by 1/2\3 and, on a second line, {a: [b, c]}
QuotedLines ==
    <<"C", "u", "t", " ", "\"", "p", "9", "5", "\"", " ", "b", "y", " ", "1",
      "/", "2", "\\", "3", "\n", "{", "a", ":", " ", "[", "b", ",", " ", "c",
      "]", "}">>

ExportSummaries == {<<>>, QuotedSummary}

ExportBulletTexts == {<<>>, QuotedLines}

InitExport ==
    /\ InitDocument
    /\ args = NoArgs
    /\ calls = <<>>
    /\ snap = <<>>
    /\ host \in {BrowserHost, [BrowserHost EXCEPT !.window = FALSE]}

ExportRender == RenderChecklist /\ UNCHANGED <<lastIndex, args, calls, snap>>

ExportEditSummary ==
    /\ \E v \in ExportSummaries : setPersonalField("summary", v)
    /\ UNCHANGED <<experiences, educations, projects, skills, issued, host>>
    /\ ExportRender

ExportEditBullets ==
    /\ \E i \in DOMAIN experiences, text \in ExportBulletTexts :
           handleExperienceChange(experiences[i].id, [bullets |-> linesOf(text)])
    /\ UNCHANGED <<personal, educations, projects, skills, issued, host>>
    /\ ExportRender

ExportAddEducation ==
    /\ SessionIdsLeft
    /\ addEducation
    /\ UNCHANGED <<personal, experiences, projects, skills, host>>
    /\ ExportRender

\* onClick={exportAsJson}, line 1099
ClickExport ==
    /\ HostCalls < MaxHostCalls
    /\ exportAsJson
    /\ UNCHANGED <<personal, experiences, educations, projects, skills, issued>>
    /\ ExportRender

\* onClick={printable}, line 1092
ClickPrint ==
    /\ HostCalls < MaxHostCalls
    /\ printable
    /\ UNCHANGED <<personal, experiences, educations, projects, skills, issued>>
    /\ ExportRender

NextExport ==
    \/ ExportEditSummary
    \/ ExportEditBullets
    \/ ExportAddEducation
    \/ ClickExport
    \/ ClickPrint

SpecExport == InitExport /\ [][NextExport]_vars

(***************************************************************************)
(* SpecMemo: the checklist of the useMemo under mutations of all five      *)
(* parts of the document, the projects, which are no dependency of the     *)
(* useMemo, among them: text on both sides of each threshold is typed,     *)
(* skill blocks and projects are added and removed.                        *)
(***************************************************************************)

MemoRemoveProject ==
    /\ \E i \in DOMAIN projects : removeProject(projects[i].id)
    /\ UNCHANGED <<personal, experiences, educations, skills, issued>>
    /\ FormFrame

NextMemo ==
    \/ FormEditSummary
    \/ FormEditBullets
    \/ FormEditDegree
    \/ FormEditItems
    \/ FormAddBlock
    \/ FormRemoveBlock
    \/ UpdatesEditName
    \/ UpdatesAddProject
    \/ MemoRemoveProject

SpecMemo == InitPersonal /\ [][NextMemo]_vars

(***************************************************************************)
(* The suggestion buttons of an experience, lines 717-721 and 795-817.     *)
(***************************************************************************)

\* exp.bullets.includes(bullet)
includes(list, x) == \E n \in DOMAIN list : list[n] = x

\* Mutant: the result of getSuggestedBullets offered as it is.
suggestionsUnfiltered(result, bullets) == result

\* .filter((bullet) => !exp.bullets.includes(bullet)), line 721
RECURSIVE suggestions(_, _)
suggestions(result, bullets) ==
    IF result = <<>> THEN <<>>
    ELSE (IF includes(bullets, Head(result)) THEN <<>> ELSE <<Head(result)>>)
         \o suggestions(Tail(result), bullets)

\* The second argument of suggestions.slice(0, 4), line 805.
DisplayedSuggestions == 4

\* suggestions.slice(0, 4), line 805
displayed(list) ==
    SubSeq(list, 1, IF Len(list) < DisplayedSuggestions THEN Len(list)
                    ELSE DisplayedSuggestions)

\* The buttons that the latest render drew for experience k: calls[k] is the
\* getSuggestedBullets call of that render for it.
Buttons(k) == displayed(suggestions(calls[k].result, experiences[k].bullets))

\* onClick of button n of the experience id, lines 807-811
clickSuggestion(id, n) ==
    \E k \in DOMAIN experiences :
        /\ experiences[k].id = id
        /\ n \in DOMAIN Buttons(k)
        /\ handleExperienceChange(
               id, [bullets |-> Append(experiences[k].bullets, Buttons(k)[n])])

(***************************************************************************)
(* SpecClicks: a session of clicks on suggestion buttons, between edits of *)
(* the summary, which change what is suggested, and added experiences.     *)
(***************************************************************************)

\* The most clicks on "Add role" and on suggestion buttons, taken together,
\* in a session.
MaxClicks == 3

ClicksLeft == (Len(experiences) - 1) + totalBullets(experiences) < MaxClicks

ClicksRender ==
    /\ UNCHANGED <<args, snap, host>>
    /\ RenderChecklist
    /\ RenderSuggestions

ClicksAddRole ==
    /\ ClicksLeft
    /\ SessionIdsLeft
    /\ addExperience
    /\ UNCHANGED <<personal, educations, projects, skills>>
    /\ ClicksRender

ClickSuggestion(id, n) ==
    /\ ClicksLeft
    /\ clickSuggestion(id, n)
    /\ UNCHANGED <<personal, educations, projects, skills, issued>>
    /\ ClicksRender

ClicksClick == \E id \in IdPool, n \in 1..DisplayedSuggestions : ClickSuggestion(id, n)

NextClicks ==
    \/ SessionEditSummary
    \/ ClicksAddRole
    \/ ClicksClick

SpecClicks == InitSession /\ [][NextClicks]_vars

(***************************************************************************)
(* SpecLines: the two text areas that hold one entry per line, the bullets *)
(* of the experience and the highlights of the project, typed with blank   *)
(* and padded lines, and the suggestion buttons clicked in between.        *)
(***************************************************************************)

\* " x ", an empty line, a line of white space, "y z" and a line feed at the end
PaddedLines ==
    <<" ", "x", " ", "\n", "\n", "\t", " ", "\n", "y", " ", "z", "\t", "\n">>

LinesTexts == {<<>>, Blank, TwoLinesAndBlank, PaddedLines}

\* onChange of the bullets text area, lines 786-793
LinesEditBullets ==
    /\ \E i \in DOMAIN experiences, text \in LinesTexts :
           handleExperienceChange(experiences[i].id, [bullets |-> linesOf(text)])
    /\ UNCHANGED <<personal, educations, projects, skills, issued>>
    /\ ClicksRender

\* onChange of the highlights text area, lines 889-896
LinesEditHighlights ==
    /\ \E i \in DOMAIN projects, text \in LinesTexts :
           handleProjectChange(projects[i].id, [highlights |-> highlightsOf(text)])
    /\ UNCHANGED <<personal, experiences, educations, skills, issued>>
    /\ ClicksRender

NextLines ==
    \/ LinesEditBullets
    \/ LinesEditHighlights
    \/ SessionEditSummary
    \/ ClicksClick

SpecLines == InitSession /\ [][NextLines]_vars

(***************************************************************************)
(* Claims about getSuggestedBullets, checked under SpecSuggest.  What a    *)
(* pattern matches is restated here without the matcher: a keyword occurs  *)
(* in a string when its letters stand there, whatever their case.          *)
(***************************************************************************)

SameLetter(a, b) == toUpperCase(a) = toUpperCase(b)

\* word stands in s right after position i
OccursAt(word, s, i) ==
    /\ i + Len(word) <= Len(s)
    /\ \A j \in 1..Len(word) : SameLetter(s[i + j], word[j])

\* the alternative alt, of the form word or word1 \s* word2, occurs in s
AltOccurs(alt, s) ==
    IF \E k \in 1..Len(alt) : alt[k] = Star
    THEN LET k  == CHOOSE k \in 1..Len(alt) : alt[k] = Star
             w1 == SubSeq(alt, 1, k - 1)
             w2 == SubSeq(alt, k + 1, Len(alt))
         IN  \E i \in 0..Len(s), n \in 0..Len(s) :
                 /\ OccursAt(w1, s, i)
                 /\ i + Len(w1) + n <= Len(s)
                 /\ \A j \in 1..n : s[i + Len(w1) + j] \in WhiteSpace
                 /\ OccursAt(w2, s, i + Len(w1) + n)
    ELSE \E i \in 0..Len(s) : OccursAt(alt, s, i)

PatternOccurs(k, s) ==
    \E a \in DOMAIN roleSuggestionLibrary[k].pattern.alts :
        AltOccurs(roleSuggestionLibrary[k].pattern.alts[a], s)

GroupFor(k, role, summary) ==
    IF PatternOccurs(k, role) \/ PatternOccurs(k, summary)
    THEN roleSuggestionLibrary[k].bullets
    ELSE <<>>

MatchedGroups(role, summary) ==
    GroupFor(1, role, summary) \o GroupFor(2, role, summary)
        \o GroupFor(3, role, summary) \o GroupFor(4, role, summary)

Range(xs) == {xs[i] : i \in DOMAIN xs}

NoDuplicates(xs) == \A i, j \in DOMAIN xs : xs[i] = xs[j] => i = j

FirstIndex(xs, x) == CHOOSE i \in DOMAIN xs : xs[i] = x /\ \A j \in 1..(i - 1) : xs[j] # x

\* C1: every call returns the bullet groups of exactly the library entries
\* whose pattern occurs in the role or in the summary, in library order and
\* each group in its declared order, followed by the three generic bullets;
\* the role "Senior Software Engineer" with an empty summary yields the three
\* software bullets and then the generic ones.
C1_MatchedGroupsThenGeneric ==
    \A i \in DOMAIN calls :
        /\ calls[i].result =
               MatchedGroups(calls[i].role, calls[i].summary)
                   \o <<GenericBullet1, GenericBullet2, GenericBullet3>>
        /\ (calls[i].role = SeniorSoftwareEngineer /\ calls[i].summary = <<>>)
               => calls[i].result =
                      <<SoftwareBullet1, SoftwareBullet2, SoftwareBullet3,
                        GenericBullet1, GenericBullet2, GenericBullet3>>

C1_Witness ==
    \E i \in DOMAIN calls :
        /\ calls[i].role = SeniorSoftwareEngineer
        /\ calls[i].summary = <<>>
        /\ Len(calls[i].result) = 6
        /\ calls[i].result[1] = SoftwareBullet1

\* C2: no call returns a string twice, and the strings returned stand in the
\* order of their first occurrence in the matched groups followed by the
\* generic bullets.
C2_DuplicateFreeFirstOccurrence ==
    \A i \in DOMAIN calls :
        LET all == MatchedGroups(calls[i].role, calls[i].summary) \o genericBullets
            res == calls[i].result
        IN  /\ NoDuplicates(res)
            /\ Range(res) = Range(all)
            /\ \A a, b \in DOMAIN res :
                   a < b => FirstIndex(all, res[a]) < FirstIndex(all, res[b])

\* a call whose role and summary both match the same entry
C2_Witness ==
    \E i \in DOMAIN calls :
        /\ PatternOccurs(1, calls[i].role)
        /\ PatternOccurs(1, calls[i].summary)
        /\ Len(calls[i].result) >= 6

\* C3: the call with an empty role and an empty summary returns the three
\* generic bullets in their declared order and nothing else.
C3_EmptyInputsGenericOnly ==
    \A i \in DOMAIN calls :
        (calls[i].role = <<>> /\ calls[i].summary = <<>>)
            => calls[i].result = <<GenericBullet1, GenericBullet2, GenericBullet3>>

C3_Witness ==
    \E i \in DOMAIN calls :
        /\ calls[i].role = <<>>
        /\ calls[i].summary = <<>>
        /\ Len(calls[i].result) = 3

\* C4: the call is defined on every pair of inputs, those of a call still to be
\* made included, and its result is never empty: it holds the three generic
\* bullets.
C4_TotalNeverEmpty ==
    LET holdsGeneric(res) ==
            /\ Len(res) >= 3
            /\ {GenericBullet1, GenericBullet2, GenericBullet3} \subseteq Range(res)
    IN  /\ calls = <<>> =>
               holdsGeneric(getSuggestedBullets(args.role, args.summary, lastIndex).result)
        /\ \A i \in DOMAIN calls : holdsGeneric(calls[i].result)

\* a call that matches all four entries and still returns the generic bullets
C4_Witness ==
    \E i \in DOMAIN calls :
        /\ calls[i].role = PmDataUiEngineer
        /\ Len(calls[i].result) = 15
        /\ calls[i].result[15] = GenericBullet3

(***************************************************************************)
(* Claim about the calls of a session, checked under SpecSession.          *)
(***************************************************************************)

SameInputs(c, d) == c.role = d.role /\ c.summary = d.summary

\* C5: two getSuggestedBullets calls with the same role and the same summary
\* return the same sequence, whether they belong to the same render or one of
\* them (snap) was made any number of document operations and calls earlier.
C5_Deterministic ==
    /\ \A i, j \in DOMAIN calls :
           SameInputs(calls[i], calls[j]) => calls[i].result = calls[j].result
    /\ \A i \in DOMAIN calls, s \in DOMAIN snap :
           SameInputs(calls[i], snap[s]) => calls[i].result = snap[s].result

\* a call repeated after the document changed: the remembered call matched the
\* first pattern, a role was added since, and the render of the new document
\* made the same call again
C5_Witness ==
    /\ snap # <<>>
    /\ Len(experiences) = 2
    /\ Len(calls) = 2
    /\ snap[1].role = Web \o <<" ">>
    /\ snap[1].summary = Data
    /\ SameInputs(calls[1], snap[1])
    /\ SameInputs(calls[2], snap[1])
    /\ calls[2].result = snap[1].result
    /\ Len(snap[1].result) = 9

(***************************************************************************)
(* Claims about the contact and the summary items, checked under           *)
(* SpecPersonal.  Blankness and the trimmed length are restated here       *)
(* without trim.                                                           *)
(***************************************************************************)

Item(id) == checklist[CHOOSE i \in DOMAIN checklist : checklist[i].id = id]

NonBlank(s) == \E i \in DOMAIN s : s[i] \notin WhiteSpace

\* the number of characters from the first to the last one that is no white
\* space
TrimmedLength(s) ==
    Cardinality({i \in DOMAIN s :
                    /\ \E a \in 1..i : s[a] \notin WhiteSpace
                    /\ \E b \in i..Len(s) : s[b] \notin WhiteSpace})

\* C7: the contact item is satisfied exactly when fullName, headline, email and
\* location each hold a character that is no white space; the other four
\* fields of the personal section do not enter.
C7_ContactIffFourNonBlank ==
    Item("contact").satisfied <=>
        /\ NonBlank(personal.fullName)
        /\ NonBlank(personal.headline)
        /\ NonBlank(personal.email)
        /\ NonBlank(personal.location)

\* the contact item satisfied while phone, website, linkedin and summary are
\* all empty
C7_Witness ==
    /\ Item("contact").satisfied
    /\ personal.fullName = PaddedAda
    /\ personal.phone = <<>>
    /\ personal.website = <<>>
    /\ personal.linkedin = <<>>
    /\ personal.summary = <<>>

\* C8: the summary item is satisfied exactly when the summary, without its
\* leading and trailing white space, is longer than 60 characters; neither 70
\* spaces nor a summary of exactly 60 characters once trimmed satisfies it.
C8_SummaryIffTrimmedOver60 ==
    /\ Item("summary").satisfied <=> TrimmedLength(personal.summary) > 60
    /\ personal.summary = Repeat(" ", 70) => ~Item("summary").satisfied
    /\ personal.summary = <<" ">> \o Repeat("a", 60) \o <<"\n">>
           => ~Item("summary").satisfied

\* 70 spaces typed into the summary, and the item not satisfied
C8_Witness ==
    /\ personal.summary = Repeat(" ", 70)
    /\ Len(personal.summary) > 60
    /\ ~Item("summary").satisfied

(***************************************************************************)
(* Claim about the experience item, checked under SpecExperience, and      *)
(* claim about the education item, checked under SpecEducation.            *)
(***************************************************************************)

\* C9: the experience item is satisfied exactly when some experience has three
\* or more bullets; two experiences of two bullets each do not satisfy it.
C9_ExperienceIffThreeBullets ==
    /\ Item("experience").satisfied <=>
           \E i \in DOMAIN experiences : Len(experiences[i].bullets) \notin {0, 1, 2}
    /\ (\A i \in DOMAIN experiences : Len(experiences[i].bullets) = 2)
           => ~Item("experience").satisfied

\* two experiences with two bullets each, four in all, and the item not
\* satisfied
C9_Witness ==
    /\ Len(experiences) = 2
    /\ experiences[1].bullets = <<<<"a">>, <<"b">>>>
    /\ experiences[2].bullets = <<<<"a">>, <<"b">>>>
    /\ ~Item("experience").satisfied

\* C10: the education item is satisfied exactly when some education entry has
\* a degree or details holding a character that is no white space; the
\* institution alone does not satisfy it.
C10_EducationIffDegreeOrDetails ==
    /\ Item("education").satisfied <=>
           \E i \in DOMAIN educations :
               NonBlank(educations[i].degree) \/ NonBlank(educations[i].details)
    /\ (\A i \in DOMAIN educations :
            educations[i].degree = <<>> /\ educations[i].details = <<>>)
           => ~Item("education").satisfied

\* two entries, institutions filled in, degrees and details blank, and the item
\* not satisfied
C10_Witness ==
    /\ Len(educations) = 2
    /\ educations[1].school = Mit
    /\ educations[2].school = Mit
    /\ educations[1].degree = Blank
    /\ educations[2].details = <<"\n">>
    /\ ~Item("education").satisfied

(***************************************************************************)
(* Claim about the shape of the checklist, checked under SpecChecklist.    *)
(***************************************************************************)

\* C6: whatever the document holds, the checklist has the five items contact,
\* summary, experience, education, skills in this order, contact, experience
\* and skills required and summary and education not, each with its two fixed
\* tips.
C6_FiveItemsFixedOrder ==
    /\ Len(checklist) = 5
    /\ [i \in 1..5 |-> checklist[i].id]
           = <<"contact", "summary", "experience", "education", "skills">>
    /\ [i \in 1..5 |-> checklist[i].required] = <<TRUE, FALSE, TRUE, FALSE, TRUE>>
    /\ [i \in 1..5 |-> checklist[i].tips]
           = << <<"Include full name, role headline, and location.",
                  "Add best contact email and optional phone number.">>,
                <<"Write 2-3 concise sentences highlighting domain expertise.",
                  "Reference years of experience and a core differentiator.">>,
                <<"Aim for 3+ quantified bullets per recent role.",
                  "Start each bullet with strong action verbs.">>,
                <<"List degree, major, and graduation year.",
                  "Add standout coursework, honors, or certifications.">>,
                <<"Group skills by tooling, methodologies, and domains.",
                  "Mirror keywords used in your target job descriptions.">> >>

\* a document far from the initial one: every item satisfied, and a second
\* experience added
C6_Witness ==
    /\ \A i \in DOMAIN checklist : checklist[i].satisfied
    /\ Len(experiences) = 2
    /\ personal.fullName = Ada
    /\ Len(checklist) = 5

(***************************************************************************)
(* Claim about the skills item, checked under SpecSkills.                  *)
(***************************************************************************)

\* C11: the skills item is satisfied exactly when the items text of some skill
\* block holds a character that is no white space; a block whose label is
\* filled in and whose items are blank, like the first block with its label
\* "Core", does not satisfy it.
C11_SkillsIffItemsNonBlank ==
    /\ Item("skills").satisfied <=> \E i \in DOMAIN skills : NonBlank(skills[i].items)
    /\ (\A i \in DOMAIN skills : NonBlank(skills[i].label) /\ ~NonBlank(skills[i].items))
           => ~Item("skills").satisfied

\* two labelled blocks, the items of the first typed in as white space only
\* and those of the second still empty: the item is not satisfied
C11_Witness ==
    /\ Len(skills) = 2
    /\ skills[1].label = <<"C", "o", "r", "e">>
    /\ skills[1].items = Blank
    /\ skills[2].label = Tools
    /\ skills[2].items = <<>>
    /\ ~Item("skills").satisfied

(***************************************************************************)
(* Claims about the checklist panel and the effect of a bullets edit on    *)
(* the checklist, checked under SpecChecklist.                             *)
(***************************************************************************)

ItemIds == {"contact", "summary", "experience", "education", "skills"}

\* C12: the count shown in the panel is the number of satisfied items, the
\* total is 5, and the overall flag is up exactly when the count equals the
\* total, that is when all five items are satisfied, the two items that are
\* not required (summary and education) included.
C12_CompleteIffAllFive ==
    /\ completedCount(checklist)
           = Cardinality({id \in ItemIds : Item(id).satisfied})
    /\ total(checklist) = 5
    /\ complete(checklist) <=> completedCount(checklist) = total(checklist)
    /\ complete(checklist) <=> \A id \in ItemIds : Item(id).satisfied
    /\ ~Item("summary").satisfied => ~complete(checklist)
    /\ ~Item("education").satisfied => ~complete(checklist)

\* the three required items satisfied, summary and education not: 3 of 5,
\* and the flag down
C12_Witness ==
    /\ Item("contact").satisfied
    /\ Item("experience").satisfied
    /\ Item("skills").satisfied
    /\ ~Item("summary").satisfied
    /\ ~Item("education").satisfied
    /\ completedCount(checklist) = 3
    /\ ~complete(checklist)

\* The document of the scenario: the four contact fields filled in, nothing
\* else typed, one experience without bullets.
C13_Scenario ==
    /\ NonBlank(personal.fullName) /\ NonBlank(personal.headline)
    /\ NonBlank(personal.email) /\ NonBlank(personal.location)
    /\ personal.summary = <<>>
    /\ Len(experiences) = 1
    /\ experiences[1].bullets = <<>>
    /\ \A i \in DOMAIN educations : educations[i] = createEducation(educations[i].id)
    /\ \A i \in DOMAIN skills : skills[i].items = <<>>

\* C13: an edit of the bullets of an experience changes the satisfied value of
\* no item but experience; from the scenario document, where contact is
\* satisfied, experience is not and the flag is down, the edit that leaves the
\* experience with three bullets turns experience to satisfied.
C13_BulletsEditChangesExperienceOnly ==
    [][/\ (experiences' # experiences /\ FormEditBullets) =>
              \A id \in ItemIds \ {"experience"} :
                  Item(id).satisfied' = Item(id).satisfied
       /\ C13_Scenario =>
              /\ Item("contact").satisfied
              /\ ~Item("experience").satisfied
              /\ ~complete(checklist)
       /\ (C13_Scenario /\ FormEditBullets /\ Len(experiences'[1].bullets) = 3) =>
              Item("experience").satisfied']_vars

\* the scenario document after the edit: three bullets, contact and
\* experience satisfied, the three other items not
C13_Witness ==
    /\ personal = [basePersonalInfo EXCEPT !.fullName = Ada, !.headline = Ada,
                                           !.email = Ada, !.location = Ada]
    /\ Len(experiences) = 1
    /\ Len(experiences[1].bullets) = 3
    /\ Item("contact").satisfied
    /\ Item("experience").satisfied
    /\ ~Item("summary").satisfied
    /\ ~Item("education").satisfied
    /\ ~Item("skills").satisfied

(***************************************************************************)
(* Claims about the identifiers and the lengths of the four lists,         *)
(* checked under SpecLists.                                                *)
(***************************************************************************)

IdsOf(list) == {list[i].id : i \in DOMAIN list}

CurrentIds == IdsOf(experiences) \cup IdsOf(educations) \cup IdsOf(projects) \cup IdsOf(skills)

ListsNonEmpty ==
    /\ Len(experiences) >= 1
    /\ Len(educations) >= 1
    /\ Len(projects) >= 1
    /\ Len(skills) >= 1

\* before without its one record of identifier id, the others in their order
WithoutRecord(before, after, id) ==
    \E k \in DOMAIN before :
        /\ before[k].id = id
        /\ Len(after) = Len(before) - 1
        /\ \A j \in DOMAIN after : after[j] = IF j < k THEN before[j] ELSE before[j + 1]

\* C17: none of the four lists is ever empty; a remove click is taken only on
\* a list of more than one record, and it takes out the record of the clicked
\* identifier and nothing else, the other records keeping their order.
C17_ListsNeverEmptyRemoveExact ==
    /\ []ListsNonEmpty
    /\ [][\A id \in IdPool :
              /\ RemoveRole(id) =>
                     Len(experiences) > 1 /\ WithoutRecord(experiences, experiences', id)
              /\ RemoveEducation(id) =>
                     Len(educations) > 1 /\ WithoutRecord(educations, educations', id)
              /\ RemoveProject(id) =>
                     Len(projects) > 1 /\ WithoutRecord(projects, projects', id)
              /\ RemoveBlock(id) =>
                     Len(skills) > 1 /\ WithoutRecord(skills, skills', id)]_vars

\* the first experience was removed from a list of two, and the one added
\* after it is what is left
C17_Witness ==
    /\ 1 \in snap.removed
    /\ Len(experiences) = 1
    /\ experiences[1].id \in IdPool \ {1, 2, 3, 4}
    /\ Len(skills) = 2

(***************************************************************************)
(* Claim about the update handlers, checked under SpecUpdates.             *)
(***************************************************************************)

\* after is before with updates merged into the records of identifier id:
\* same length and order, those records with their identifier and their other
\* fields as they were, every other record as it was
MergedInto(before, after, id, updates) ==
    /\ Len(after) = Len(before)
    /\ \A i \in DOMAIN before :
           IF before[i].id = id
           THEN /\ DOMAIN after[i] = DOMAIN before[i]
                /\ after[i].id = id
                /\ \A f \in DOMAIN updates : after[i][f] = updates[f]
                /\ \A f \in DOMAIN before[i] \ DOMAIN updates : after[i][f] = before[i][f]
           ELSE after[i] = before[i]
    /\ (\A i \in DOMAIN before : before[i].id # id) => after = before

\* C16: a call of an update handler with identifier id merges the given field
\* into the record of that identifier and changes nothing else: the record
\* keeps its identifier and its other fields, the other records, the length
\* and the order of the list are as before, personal and the three other
\* lists are as before, and with an id no record carries the list is as before.
\* (A call that leaves its list as it was leaves the whole document as it was:
\* the four cases are told apart by the list that changed.)
C16_UpdateMergesOneRecord ==
    [][/\ experiences' # experiences =>
              \A id \in IdPool, v \in UpdateValues :
                  UpdateRole(id, v) =>
                      /\ MergedInto(experiences, experiences', id, [role |-> v])
                      /\ UNCHANGED <<personal, educations, projects, skills>>
       /\ educations' # educations =>
              \A id \in IdPool, v \in UpdateValues :
                  UpdateDegree(id, v) =>
                      /\ MergedInto(educations, educations', id, [degree |-> v])
                      /\ UNCHANGED <<personal, experiences, projects, skills>>
       /\ projects' # projects =>
              \A id \in IdPool, v \in UpdateValues :
                  UpdateName(id, v) =>
                      /\ MergedInto(projects, projects', id, [name |-> v])
                      /\ UNCHANGED <<personal, experiences, educations, skills>>
       /\ skills' # skills =>
              \A id \in IdPool, v \in UpdateValues :
                  UpdateLabel(id, v) =>
                      /\ MergedInto(skills, skills', id, [label |-> v])
                      /\ UNCHANGED <<personal, experiences, educations, projects>>]_vars

\* two experiences, the second one edited and the first one as created; the
\* first skill block relabelled, its identifier kept
C16_Witness ==
    /\ Len(experiences) = 2
    /\ experiences[1] = createExperience(1)
    /\ experiences[2].role = Web
    /\ skills[1].id = 4
    /\ skills[1].label = Web

(***************************************************************************)
(* The export.                                                             *)
(***************************************************************************)

\* JSON.parse keeps, of the properties of one name, the last.
RECURSIVE Lookup(_, _, _)
Lookup(props, name, k) ==
    IF k = 0 THEN SyntaxError
    ELSE IF props[k][1] = name THEN props[k][2] ELSE Lookup(props, name, k - 1)

Property(v, key) == Lookup(v.value, KeyText[key], Len(v.value))

PropertyNames(v) == [k \in DOMAIN v.value |-> v.value[k][1]]

\* v is an object with the fields of record, each of the same value.
SameRecord(v, record, keys) ==
    /\ v.type = "object"
    /\ PropertyNames(v) = [k \in DOMAIN keys |-> KeyText[keys[k]]]
    /\ \A k \in DOMAIN keys :
           LET field == Property(v, keys[k])
           IN  IF keys[k] = "id" THEN field = JsString(IdText(record.id))
               ELSE IF keys[k] \in {"bullets", "highlights"}
                    THEN /\ field.type = "array"
                         /\ Len(field.value) = Len(record[keys[k]])
                         /\ \A n \in DOMAIN field.value :
                                field.value[n] = JsString(record[keys[k]][n])
               ELSE field = JsString(record[keys[k]])

\* v is an array with the records of list, in the order of list.
SameList(v, list, keys) ==
    /\ v.type = "array"
    /\ Len(v.value) = Len(list)
    /\ \A n \in DOMAIN list : SameRecord(v.value[n], list[n], keys)

TopLevelNames ==
    <<KeyText.personal, KeyText.experiences, KeyText.educations,
      KeyText.projects, KeyText.skills>>

\* The text parses to the document p, exps, edus, projs, sks.
ReadsBackAs(text, p, exps, edus, projs, sks) ==
    LET read == parse(text)
    IN  /\ read.ok
        /\ read.value.type = "object"
        /\ PropertyNames(read.value) = TopLevelNames
        /\ SameRecord(Property(read.value, "personal"), p, PersonalKeys)
        /\ SameList(Property(read.value, "experiences"), exps, ExperienceKeys)
        /\ SameList(Property(read.value, "educations"), edus, EducationKeys)
        /\ SameList(Property(read.value, "projects"), projs, ProjectKeys)
        /\ SameList(Property(read.value, "skills"), sks, SkillBlockKeys)

LastDownload(h) == h.downloads[Len(h.downloads)]

\* C18: a step that exports hands the host one file named
\* resume-builder-export.json whose text parses as JSON to an object of
\* exactly the five properties personal, experiences, educations, projects
\* and skills, in which every field has the value, and every list the
\* length and the order, that the document had when the button was clicked.
C18_ExportReadsBackAsDocument ==
    [][Len(host'.downloads) > Len(host.downloads) =>
           /\ LastDownload(host').download = "resume-builder-export.json"
           /\ LastDownload(host').type = "application/json"
           /\ ReadsBackAs(LastDownload(host').text, personal, experiences,
                          educations, projects, skills)]_vars

\* An export of a document with a summary and bullets that need escapes and
\* with two education entries has been read back.
C18_Witness ==
    \E n \in DOMAIN host.downloads :
        LET read == parse(host.downloads[n].text)
        IN  /\ read.ok
            /\ Property(Property(read.value, "personal"), "summary")
                   = JsString(QuotedSummary)
            /\ Len(Property(read.value, "educations").value) = 2
            /\ Property(Property(read.value, "experiences").value[1], "bullets")
                   = JsArray(JsStrings(linesOf(QuotedLines)))

HostIdle == host.downloads = <<>> /\ host.prints = 0

\* C19: a step calls the host at most once, and only a click on the export
\* or the print button does, an edit never; without a window the host is
\* never called and no handler throws; a click leaves the document as it was.
C19_HostCalledOncePerClick ==
    /\ [](host.thrown = 0 /\ (~host.window => HostIdle))
    /\ [][/\ HostCalls' <= HostCalls + 1
          /\ host' # host =>
                 /\ ClickExport \/ ClickPrint
                 /\ HostCalls' = HostCalls + 1
          /\ ClickExport \/ ClickPrint =>
                 UNCHANGED <<personal, experiences, educations, projects,
                             skills, issued, checklist>>]_vars

\* One file downloaded and one page printed, after an edit.
C19_Witness ==
    /\ Len(host.downloads) = 1
    /\ host.prints = 1
    /\ personal.summary = QuotedSummary

(***************************************************************************)
(* The memoized checklist.                                                 *)
(***************************************************************************)

\* C20: in every reachable state the checklist that useMemo returned at the
\* last render is the checklist computed from the present personal
\* information, experiences, education and skills: no edit, add or remove
\* leaves an item displayed with an outdated satisfied value.
C20_ChecklistIsFreshEvaluation ==
    checklist = computeChecklist(personal, experiences, educations, skills)

\* After mutations of every kind: the bullets of an experience typed, a
\* project named, the first skill block removed, the skills item unsatisfied.
C20_Witness ==
    /\ ~skillsSatisfied(skills)
    /\ experienceSatisfied(experiences)
    /\ \E i \in DOMAIN projects : projects[i].name # <<>>
    /\ \A i \in DOMAIN skills : skills[i].id # 4

(***************************************************************************)
(* The suggestion buttons.                                                 *)
(***************************************************************************)

\* getSuggestedBullets on the experience and the summary of the present state
FreshResult(exp) ==
    getSuggestedBullets(exp.role \o <<" ">> \o exp.company, personal.summary,
                        lastIndex).result

\* The buttons of experience k are, in the order of the result, the first
\* four of its bullets that the experience does not have.
ButtonsAsClaimed(k) ==
    LET result == FreshResult(experiences[k])
        absent == {p \in DOMAIN result :
                       \A m \in DOMAIN experiences[k].bullets :
                           experiences[k].bullets[m] # result[p]}
        shown  == Buttons(k)
    IN  /\ Len(shown) = IF Cardinality(absent) < 4 THEN Cardinality(absent) ELSE 4
        /\ \A j \in DOMAIN shown :
               \E p \in absent :
                   /\ Cardinality({q \in absent : q < p}) = j - 1
                   /\ shown[j] = result[p]

NoBulletTwice(exp) ==
    \A m, n \in DOMAIN exp.bullets : exp.bullets[m] = exp.bullets[n] => m = n

\* C21: the buttons of an experience show, in order, the first four bullets
\* of getSuggestedBullets(role + " " + company, summary) that the experience
\* does not have; a click on a button appends its suggestion to the bullets
\* of that experience, every earlier bullet kept in its place, the appended
\* bullet not among them, and leaves every other experience and every other
\* field as it was.
C21_SuggestionClickAppendsOffered ==
    /\ [](\A k \in DOMAIN experiences :
              ButtonsAsClaimed(k) /\ NoBulletTwice(experiences[k]))
    /\ [][experiences' # experiences =>
              \A id \in IdPool, n \in 1..4 :
                  ClickSuggestion(id, n) =>
                      /\ Len(experiences') = Len(experiences)
                      /\ \A k \in DOMAIN experiences :
                             IF experiences[k].id # id
                             THEN experiences'[k] = experiences[k]
                             ELSE LET before == experiences[k].bullets
                                      after  == experiences'[k].bullets
                                  IN  /\ Len(after) = Len(before) + 1
                                      /\ SubSeq(after, 1, Len(before)) = before
                                      /\ after[Len(after)] = Buttons(k)[n]
                                      /\ \A m \in DOMAIN before :
                                             before[m] # after[Len(after)]
                                      /\ [experiences'[k] EXCEPT !.bullets = before]
                                             = experiences[k]]_vars

\* Two clicks in a row on the first experience, the second on a button that
\* the summary brought, beside a second experience that was not clicked.
C21_Witness ==
    /\ Len(experiences) = 2
    /\ experiences[1].bullets = <<GenericBullet1, DataBullet1>>
    /\ experiences[2].bullets = <<>>
    /\ Len(suggestions(calls[1].result, experiences[1].bullets)) = 4
    /\ Len(suggestions(calls[2].result, experiences[2].bullets)) > 4

(***************************************************************************)
(* The entries of the bullets and of the highlights.                       *)
(***************************************************************************)

\* s is not empty and neither starts nor ends with white space.
Tidy(s) == s # <<>> /\ s[1] \notin WhiteSpace /\ s[Len(s)] \notin WhiteSpace

AllTidy(list) == \A n \in DOMAIN list : Tidy(list[n])

\* C22: after text-area edits of the bullets and of the highlights and
\* clicks on suggestion buttons, every bullet of every experience and every
\* highlight of every project is a non-empty string without white space at
\* its start or end; so is every string of the suggestion library; and the
\* experience item is satisfied only by three such bullets on one experience.
C22_EntriesNonEmptyTrimmed ==
    /\ \A i \in DOMAIN experiences : AllTidy(experiences[i].bullets)
    /\ \A i \in DOMAIN projects : AllTidy(projects[i].highlights)
    /\ \A k \in DOMAIN roleSuggestionLibrary : AllTidy(roleSuggestionLibrary[k].bullets)
    /\ AllTidy(genericBullets)
    /\ experienceSatisfied(experiences) =>
           \E i \in DOMAIN experiences :
               Cardinality({n \in DOMAIN experiences[i].bullets :
                                Tidy(experiences[i].bullets[n])}) >= 3

\* Two bullets typed between blank and padded lines, a third clicked, and
\* the same text typed into the highlights.
C22_Witness ==
    /\ experiences[1].bullets = << <<"x">>, <<"y", " ", "z">>, GenericBullet1 >>
    /\ projects[1].highlights = << <<"x">>, <<"y", " ", "z">> >>
    /\ experienceSatisfied(experiences)

=============================================================================
